---- MODULE Spec2Model ----
(***************************************************************************)
(* Model of the Maxwell 3D command dispatcher of skyline                   *)
(* (soc/gm20b/engines/maxwell_3d.cpp): the register file and its shadow    *)
(* copy, the constant-buffer batch, the deferred draw, the macro memories  *)
(* and the calls the dispatcher makes downstream.                          *)
(*                                                                         *)
(* A method is named by the register it addresses.  Register words are u32 *)
(* in the source; the model keeps the wrap-around of the counters the      *)
(* dispatcher advances but scales the word to four bits.                 *)
(*                                                                         *)
(* The second half models the pipeline state of the interconnect           *)
(* (gpu/interconnect/maxwell_3d/pipeline_state.cpp): the packed pipeline   *)
(* state and its setters, the format conversions, the leaf translators     *)
(* with their dirty flags, and the flush that updates them in order.       *)
(***************************************************************************)
EXTENDS Integers, Sequences, FiniteSets, TLC

VARIABLES
    registers,                \* Maxwell3D::registers, the register file
    shadowRegisters,          \* Maxwell3D::shadowRegisters, the shadow copy
    batchLoadConstantBuffer,  \* the constant-buffer batch record
    deferredDraw,             \* the deferred draw record
    macroState,               \* macro instruction memory and start-address table
    hist,                     \* the events of the run, each with the state it started from
    engine,                   \* the registers the pipeline translators read
    packedState,              \* PipelineState::packedState
    dirtyState,               \* the translators whose dirty flag is set
    view,                     \* the view each render-target translator holds
    phist,                    \* the operations on the pipeline state, as hist
    rng,                      \* spl::rng, the generator of each of two runs of the process
    randomCalls               \* the GetRandomBytes calls of each run, in order

dispatcherVars ==
    <<registers, shadowRegisters, batchLoadConstantBuffer, deferredDraw, macroState, hist>>

pipelineVars == <<engine, packedState, dirtyState, view, phist>>

serviceVars == <<rng, randomCalls>>

vars == <<dispatcherVars, pipelineVars, serviceVars>>

\* ------------------------------------------------------------------ bounds
\* Number of events (register writes, explicit flushes, bulk inline loads) in a run.
MaxSteps == 3

\* Width of a register word in the model (u32 in the source, scaled).
WordModulus == 2 ^ 4

\* Capacity of the macro instruction memory and of the macro start-address table (scaled).
MacroCodeSize == 2 ^ 1
MacroPositionsSize == 2 ^ 1

\* ------------------------------------------------------ register addresses
ShadowRamControlMethod == "mme.shadowRamControl"
LoadConstantBufferOffset == "loadConstantBuffer.offset"
LoadConstantBufferData == {"loadConstantBuffer.data0", "loadConstantBuffer.data1"}
DrawVertexArrayCount == "drawVertexArray.count"
DrawIndexBufferCount == "drawIndexBuffer.count"
VertexStreamFormat == "vertexStreams0.format"
VertexStreamFrequency == "vertexStreams0.frequency"
VertexStreamInstance == "vertexStreamInstance0"
VertexAttribute == "vertexAttributes0"
BindGroupConstantBuffer == "bindGroups0.constantBuffer"
FirmwareCall4 == "firmwareCall4"
FirmwareMailbox == "raw0xD00"

Methods ==
    {ShadowRamControlMethod, "mme.instructionRamPointer", "mme.instructionRamLoad",
     "mme.startAddressRamPointer", "mme.startAddressRamLoad",
     "i2m.launchDma", "i2m.loadInlineData", "syncpointAction", "clearSurface",
     "begin", "end", DrawVertexArrayCount, DrawIndexBufferCount,
     "vertexArrayStart", "indexBuffer.first", "globalBaseVertexIndex",
     "globalBaseInstanceIndex", "primitiveTopologyControl", "primitiveTopology",
     "semaphore.address", "semaphore.payload", "semaphore.info",
     FirmwareCall4, FirmwareMailbox, LoadConstantBufferOffset,
     BindGroupConstantBuffer, VertexStreamFormat, VertexStreamFrequency,
     VertexStreamInstance, VertexAttribute, "primitiveRestartEnable",
     "tessellationParameters", "patchSize", "lineWidth",
     "depthBoundsMin", "depthBoundsMax"}
    \cup LoadConstantBufferData

\* type::MmeShadowRamControl
MethodTrack == 0
MethodTrackWithFilter == 1
MethodPassthrough == 2
MethodReplay == 3

\* ------------------------------------------------------- register decoding
\* Registers::Begin: the topology in the low bit, the instance id above it.
BeginOp(v) == v % 2
BeginInstanceIdSubsequent(v) == (v \div 2) % 4 = 1

\* type::PrimitiveTopologyControl::Override::UseTopologyInBeginMethods
UseTopologyInBeginMethods(v) == v % 2 = 0

\* type::ConvertPrimitiveTopologyToDrawTopology: the two enumerations differ by one.
ConvertPrimitiveTopologyToDrawTopology(p) == IF p = 0 THEN 0 ELSE p - 1

\* type::SemaphoreInfo
SemaphoreOp(v) == CASE v % 4 = 0 -> "Release"
                    [] v % 4 = 2 -> "Counter"
                    [] OTHER -> "Unsupported"
SemaphoreOneWord(v) == (v \div 4) % 2 = 1
SemaphoreReductionEnable(v) == (v \div 8) % 2 = 1
SemaphoreCounterTypeZero(v) == v < 16

\* ----------------------------------------------------------- the records
\* BatchLoadConstantBufferState
BatchActive(b) == b.active
BatchInvalidate(b) == [b EXCEPT !.active = FALSE]
BatchReset(b) == [b EXCEPT !.buffer = <<>>]

\* DeferredDrawState::Set
DeferredDrawSet(d, count, first, baseVertex, baseInstance, topology, indexed) ==
    [d EXCEPT !.pending = TRUE, !.indexed = indexed, !.drawTopology = topology,
              !.drawCount = count, !.drawFirst = first,
              !.drawBaseVertex = baseVertex, !.drawBaseInstance = baseInstance]

\* A downstream call, with the register file as the callee sees it.
Emit(s, fn, args) ==
    [s EXCEPT !.calls = Append(@, [fn |-> fn, args |-> args, regs |-> s.registers])]

Warn(s, msg) == [s EXCEPT !.warn = Append(@, msg)]

Throw(s, msg) == [s EXCEPT !.thrown = msg]

\* Maxwell3D::GetCurrentTopology
GetCurrentTopology(regs) ==
    IF UseTopologyInBeginMethods(regs["primitiveTopologyControl"])
    THEN BeginOp(regs["begin"])
    ELSE ConvertPrimitiveTopologyToDrawTopology(regs["primitiveTopology"])

\* Variant: the flush leaves the instance count of the emitted draw in the record.
FlushDeferredDrawKeepingCount(s) ==
    IF s.deferredDraw.pending
    THEN LET d == s.deferredDraw
             s1 == [s EXCEPT !.deferredDraw.pending = FALSE]
         IN Emit(s1, "Draw", <<d.drawTopology, d.indexed, d.drawCount, d.drawFirst,
                               d.instanceCount, d.drawBaseVertex, d.drawBaseInstance>>)
    ELSE s

\* Maxwell3D::FlushDeferredDraw
FlushDeferredDraw(s) ==
    IF s.deferredDraw.pending
    THEN LET d == s.deferredDraw
             s1 == [s EXCEPT !.deferredDraw.pending = FALSE]
             s2 == Emit(s1, "Draw", <<d.drawTopology, d.indexed, d.drawCount, d.drawFirst,
                                      d.instanceCount, d.drawBaseVertex, d.drawBaseInstance>>)
         IN [s2 EXCEPT !.deferredDraw.instanceCount = 1]
    ELSE s

\* Variant: the bulk load leaves the batch active.
FlushBatchKeepingActive(s) ==
    LET b == s.batchLoadConstantBuffer
        s2 == Emit(s, "LoadConstantBuffer", <<b.buffer, b.startOffset>>)
    IN [s2 EXCEPT !.batchLoadConstantBuffer = BatchReset(@)]

\* The bulk load of the batch: LoadConstantBuffer(buffer, Invalidate()), then Reset().
FlushBatch(s) ==
    LET b == s.batchLoadConstantBuffer
        s1 == [s EXCEPT !.batchLoadConstantBuffer = BatchInvalidate(b)]
        s2 == Emit(s1, "LoadConstantBuffer", <<b.buffer, b.startOffset>>)
    IN [s2 EXCEPT !.batchLoadConstantBuffer = BatchReset(@)]

\* ------------------------------------------------------------ HandleMethod
\* Variant: the control write also runs the flushes of an ordinary method.
HandleShadowRamControlFlushing(s, method, argument) ==
    LET f == FlushDeferredDraw(s)
        g == IF BatchActive(f.batchLoadConstantBuffer) THEN FlushBatch(f) ELSE f
    IN [g EXCEPT !.shadowRegisters[method] = argument, !.registers[method] = argument]

\* Variant: in replay mode the control write commits the shadow copy's value.
HandleShadowRamControlReplayed(s, method, argument) ==
    IF s.shadowRegisters[method] = MethodReplay
    THEN [s EXCEPT !.registers[method] = s.shadowRegisters[method]]
    ELSE [s EXCEPT !.shadowRegisters[method] = argument, !.registers[method] = argument]

\* The shadow-RAM control register: both copies, nothing else.
HandleShadowRamControl(s, method, argument) ==
    [s EXCEPT !.shadowRegisters[method] = argument, !.registers[method] = argument]

\* Variant: only MethodTrack records, the filtered mode does not.
ShadowTrackUnfiltered(shadow, mode, method, argument) ==
    IF mode = MethodTrack
    THEN [shadow EXCEPT ![method] = argument]
    ELSE shadow

\* Variant: every mode but replay records the argument.
ShadowTrackPassthrough(shadow, mode, method, argument) ==
    IF mode # MethodReplay
    THEN [shadow EXCEPT ![method] = argument]
    ELSE shadow

\* Track modes record the incoming argument in the shadow copy.
ShadowTrack(shadow, mode, method, argument) ==
    IF mode = MethodTrack \/ mode = MethodTrackWithFilter
    THEN [shadow EXCEPT ![method] = argument]
    ELSE shadow

\* Variant: the argument is never replaced.
ShadowArgumentIncoming(shadow, mode, method, argument) == argument

\* Replay mode replaces the incoming argument by the shadow copy's value.
ShadowArgument(shadow, mode, method, argument) ==
    IF mode = MethodReplay
    THEN shadow[method]
    ELSE argument

\* Variants: every write counts as a change; no write counts as a change.
RedundantNever(regs, method, argument) == FALSE
RedundantAlways(regs, method, argument) == TRUE

\* The comparison of the adjusted argument with the stored value.
Redundant(regs, method, argument) == regs[method] = argument

\* Variant: a data write replaces the accumulated words instead of extending them.
BatchLayerOverwrite(s, method, argument) ==
    IF method \in LoadConstantBufferData
    THEN [s EXCEPT !.batchLoadConstantBuffer.buffer = <<argument>>,
                   !.registers[LoadConstantBufferOffset] = (@ + 4) % WordModulus,
                   !.ret = TRUE]
    ELSE FlushBatch(s)

\* The layer taken while a constant-buffer batch is active.
BatchLayer(s, method, argument) ==
    IF method \in LoadConstantBufferData
    THEN [s EXCEPT !.batchLoadConstantBuffer.buffer = Append(@, argument),
                   !.registers[LoadConstantBufferOffset] = (@ + 4) % WordModulus,
                   !.ret = TRUE]
    ELSE FlushBatch(s)

\* Variant: a changed count or topology is taken over into the pending draw.
DeferredDrawLayerRerecording(s, method, argument, redundant) ==
    CASE method = "begin" ->
            IF BeginInstanceIdSubsequent(argument)
            THEN [s EXCEPT !.deferredDraw.drawTopology = BeginOp(argument),
                           !.deferredDraw.instanceCount = (@ + 1) % WordModulus,
                           !.ret = TRUE]
            ELSE FlushDeferredDraw(s)
      [] method = "end" -> [s EXCEPT !.ret = TRUE]
      [] method \in {DrawVertexArrayCount, DrawIndexBufferCount} ->
            [s EXCEPT !.deferredDraw.drawCount = argument, !.ret = TRUE]
      [] OTHER -> FlushDeferredDraw(s)

\* Variant: every method flushes the pending draw, begin(Subsequent) included.
DeferredDrawLayerFlushing(s, method, argument, redundant) == FlushDeferredDraw(s)

\* The layer taken while a draw is pending (and no batch is active).
DeferredDrawLayer(s, method, argument, redundant) ==
    CASE method = "begin" ->
            IF BeginInstanceIdSubsequent(argument)
            THEN LET s1 == IF s.deferredDraw.drawTopology # BeginOp(argument)
                              /\ UseTopologyInBeginMethods(s.registers["primitiveTopologyControl"])
                           THEN Warn(s, "Vertex topology changed partway through instanced draw!")
                           ELSE s
                 IN [s1 EXCEPT !.deferredDraw.instanceCount = (@ + 1) % WordModulus,
                               !.ret = TRUE]
            ELSE FlushDeferredDraw(s)
      [] method = "end" -> [s EXCEPT !.ret = TRUE]
      [] method = DrawVertexArrayCount ->
            [(IF ~redundant
              THEN Warn(s, "Vertex count changed partway through instanced draw!")
              ELSE s) EXCEPT !.ret = TRUE]
      [] method = DrawIndexBufferCount ->
            [(IF ~redundant
              THEN Warn(s, "Index count changed partway through instanced draw!")
              ELSE s) EXCEPT !.ret = TRUE]
      [] OTHER -> FlushDeferredDraw(s)

\* dirtyManager.MarkDirty(method)
MarkDirty(s, method) == [s EXCEPT !.dirty = @ \cup {method}]

\* The switch taken for a changed value: the direct state of the interconnect.
DirectState(s, method, argument) ==
    CASE method = VertexStreamFormat ->
            Emit(s, "directState.vertexInput.SetStride", <<0, argument>>)
      [] method = VertexStreamFrequency ->
            Emit(s, "directState.vertexInput.SetDivisor", <<0, argument>>)
      [] method = VertexStreamInstance ->
            Emit(s, "directState.vertexInput.SetInputRate", <<0, argument>>)
      [] method = VertexAttribute ->
            Emit(s, "directState.vertexInput.SetAttribute", <<0, argument>>)
      [] method = "primitiveRestartEnable" ->
            Emit(s, "directState.inputAssembly.SetPrimitiveRestart", <<argument # 0>>)
      [] method = "tessellationParameters" ->
            Emit(s, "directState.tessellation.SetParameters", <<argument>>)
      [] method = "patchSize" ->
            Emit(s, "directState.tessellation.SetPatchControlPoints", <<argument>>)
      [] OTHER -> s

\* Variant: the payload is written before the timestamp.
WriteSemaphoreResultPayloadFirst(s, result) ==
    LET address == s.registers["semaphore.address"]
    IN IF SemaphoreOneWord(s.registers["semaphore.info"])
       THEN Emit(s, "gmmu.Write", <<address, result % WordModulus>>)
       ELSE Emit(Emit(s, "gmmu.Write", <<address, result>>),
                 "gmmu.WriteTimestamp", <<address + 8>>)

\* Maxwell3D::WriteSemaphoreResult
WriteSemaphoreResult(s, result) ==
    LET address == s.registers["semaphore.address"]
    IN IF SemaphoreOneWord(s.registers["semaphore.info"])
       THEN Emit(s, "gmmu.Write", <<address, result % WordModulus>>)
       ELSE Emit(Emit(s, "gmmu.WriteTimestamp", <<address + 8>>),
                 "gmmu.Write", <<address, result>>)

\* The semaphore.info case of the unconditional switch.
SemaphoreInfo(s, info) ==
    LET s1 == IF SemaphoreReductionEnable(info)
              THEN Warn(s, "Semaphore reduction is unimplemented!")
              ELSE s
    IN CASE SemaphoreOp(info) = "Release" ->
                WriteSemaphoreResult(Emit(s1, "executor.Submit", <<>>),
                                     s1.registers["semaphore.payload"])
         [] SemaphoreOp(info) = "Counter" ->
                IF SemaphoreCounterTypeZero(info)
                THEN WriteSemaphoreResult(s1, s1.registers["semaphore.payload"])
                ELSE s1
         [] OTHER -> Warn(s1, "Unsupported semaphore operation")

\* Variant: the pointer runs past the end of the instruction memory.
InstructionRamLoadNoWrap(s, instructionRamLoad) ==
    LET p == s.registers["mme.instructionRamPointer"]
    IN IF p >= MacroCodeSize
       THEN Throw(s, "Macro memory is full!")
       ELSE [s EXCEPT !.macroState.macroCode[p] = instructionRamLoad,
                      !.registers["mme.instructionRamPointer"] = (p + 1) % WordModulus]

\* The mme.instructionRamLoad case of the unconditional switch.
InstructionRamLoad(s, instructionRamLoad) ==
    LET p == s.registers["mme.instructionRamPointer"]
    IN IF p >= MacroCodeSize
       THEN Throw(s, "Macro memory is full!")
       ELSE [s EXCEPT !.macroState.macroCode[p] = instructionRamLoad,
                      !.registers["mme.instructionRamPointer"] =
                          ((p + 1) % WordModulus) % MacroCodeSize]

\* Variant: the start-address pointer wraps like the instruction pointer.
StartAddressRamLoadWrapping(s, startAddressRamLoad) ==
    LET p == s.registers["mme.startAddressRamPointer"]
    IN IF p >= MacroPositionsSize
       THEN Throw(s, "Maximum amount of macros reached!")
       ELSE [s EXCEPT !.macroState.macroPositions[p] = startAddressRamLoad,
                      !.registers["mme.startAddressRamPointer"] =
                          ((p + 1) % WordModulus) % MacroPositionsSize]

\* The mme.startAddressRamLoad case of the unconditional switch.
StartAddressRamLoad(s, startAddressRamLoad) ==
    LET p == s.registers["mme.startAddressRamPointer"]
    IN IF p >= MacroPositionsSize
       THEN Throw(s, "Maximum amount of macros reached!")
       ELSE [s EXCEPT !.macroState.macroPositions[p] = startAddressRamLoad,
                      !.registers["mme.startAddressRamPointer"] = (p + 1) % WordModulus]

\* Variant: the syncpoint is incremented before the work is submitted.
SyncpointActionIncrementFirst(s, syncpointAction) ==
    Emit(Emit(s, "syncpoint.Increment", <<syncpointAction>>), "executor.Submit", <<>>)

\* The syncpointAction case of the unconditional switch.
SyncpointAction(s, syncpointAction) ==
    Emit(Emit(s, "executor.Submit", <<>>), "syncpoint.Increment", <<syncpointAction>>)

\* The unconditional switch on the method.
MethodSwitch(s, method, argument) ==
    CASE method = "mme.instructionRamLoad" -> InstructionRamLoad(s, argument)
      [] method = "mme.startAddressRamLoad" -> StartAddressRamLoad(s, argument)
      [] method = "i2m.launchDma" -> Emit(s, "i2m.LaunchDma", <<>>)
      [] method = "i2m.loadInlineData" -> Emit(s, "i2m.LoadInlineData", <<(<<argument>>)>>)
      [] method = "syncpointAction" -> SyncpointAction(s, argument)
      [] method = "clearSurface" -> Emit(s, "Clear", <<argument>>)
      [] method = "begin" ->
            IF BeginInstanceIdSubsequent(argument)
            THEN [s EXCEPT !.deferredDraw.instanceCount = (@ + 1) % WordModulus]
            ELSE [s EXCEPT !.deferredDraw.instanceCount = 1]
      [] method = DrawVertexArrayCount ->
            [s EXCEPT !.deferredDraw =
                DeferredDrawSet(@, argument, s.registers["vertexArrayStart"], 0,
                                s.registers["globalBaseInstanceIndex"],
                                GetCurrentTopology(s.registers), FALSE)]
      [] method = DrawIndexBufferCount ->
            [s EXCEPT !.deferredDraw =
                DeferredDrawSet(@, argument, s.registers["indexBuffer.first"],
                                s.registers["globalBaseVertexIndex"],
                                s.registers["globalBaseInstanceIndex"],
                                GetCurrentTopology(s.registers), TRUE)]
      [] method = "semaphore.info" -> SemaphoreInfo(s, argument)
      [] method = FirmwareCall4 -> [s EXCEPT !.registers[FirmwareMailbox] = 1]
      [] method \in LoadConstantBufferData ->
            [s EXCEPT !.batchLoadConstantBuffer =
                          [active |-> TRUE,
                           startOffset |-> s.registers[LoadConstantBufferOffset],
                           buffer |-> Append(@.buffer, argument)],
                      !.registers[LoadConstantBufferOffset] = (@ + 4) % WordModulus]
      [] method = BindGroupConstantBuffer ->
            Emit(s, "BindConstantBuffer", <<0, argument \div 2, argument % 2 = 1>>)
      [] OTHER -> s

\* Maxwell3D::HandleMethod
HandleMethod(s, method, argument) ==
    IF method = ShadowRamControlMethod
    THEN HandleShadowRamControl(s, method, argument)
    ELSE LET mode == s.shadowRegisters[ShadowRamControlMethod]
             shadow == ShadowTrack(s.shadowRegisters, mode, method, argument)
             arg == ShadowArgument(shadow, mode, method, argument)
             redundant == Redundant(s.registers, method, arg)
             s2 == [s EXCEPT !.shadowRegisters = shadow, !.registers[method] = arg]
             s3 == IF BatchActive(s2.batchLoadConstantBuffer)
                   THEN BatchLayer(s2, method, arg)
                   ELSE IF s2.deferredDraw.pending
                        THEN DeferredDrawLayer(s2, method, arg, redundant)
                        ELSE s2
         IN IF s3.ret
            THEN s3
            ELSE LET s4 == IF ~redundant
                           THEN DirectState(MarkDirty(s3, method), method, arg)
                           ELSE s3
                 IN MethodSwitch(s4, method, arg)

\* Variant: the explicit flush forgets the constant-buffer batch.
FlushEngineStateDrawOnly(s) == FlushDeferredDraw(s)

\* Maxwell3D::FlushEngineState
FlushEngineStateOf(s) ==
    LET s1 == FlushDeferredDraw(s)
    IN IF BatchActive(s1.batchLoadConstantBuffer) THEN FlushBatch(s1) ELSE s1

\* ============================================================= pipeline state
\* The pipeline state of the interconnect (gpu/interconnect/maxwell_3d/
\* pipeline_state.cpp): the packed pipeline state, its setters and conversions, the
\* leaf translators and PipelineState.  A translator reads its registers through
\* references into the register file; `engine` holds the registers they read, keyed
\* by <<group, index, field>>.  Enumerated registers hold the enumerator's name where
\* the code switches on it and its number where the code computes with it.

\* Width of the packed format fields (u8).
ByteModulus == 2 ^ 8

\* engine::ColorTargetCount (scaled).
ColorTargetCount == 2 ^ 1

ColorTargets == 0..(ColorTargetCount - 1)

\* engine::ColorTarget::Format: Disabled, two mapped formats, one without a mapping.
Disabled == 0
A8R8G8B8 == 207
R5G6B5 == 232
A8 == 247

\* engine::ZtFormat: two mapped formats, one without a mapping.
ZF32 == 10
Z16 == 19
V8Z24 == 24

\* engine::CompareFunc: the D3D range and the OGL range.
D3DNever == 1
D3DAlways == 8
OglNever == 512
OglAlways == 519

\* engine::LogicOp::Func: the first and the last function.
LogicOpClear == 5376
LogicOpSet == 5391

\* The translators PipelineState owns, in the order Flush updates them.
ColorRenderTargetName(index) == <<"colorRenderTarget", index>>

Translators ==
    [n \in 1..(ColorTargetCount + 8) |->
        IF n <= ColorTargetCount
        THEN ColorRenderTargetName(n - 1)
        ELSE <<(<<"depthRenderTarget", "vertexInput", "inputAssembly", "tessellation",
                  "rasterization", "depthStencil", "colorBlend",
                  "globalShaderConfig">>)[n - ColorTargetCount], 0>>]

TranslatorSet == {Translators[n] : n \in DOMAIN Translators}

\* Variant: only the render targets are held in a dirty-state wrapper.
DirtyTrackedTargetsOnly ==
    {ColorRenderTargetName(i) : i \in ColorTargets} \cup {<<"depthRenderTarget", 0>>}

\* The translators held in a dirty-state wrapper; the other three are plain members.
DirtyTracked ==
    {ColorRenderTargetName(i) : i \in ColorTargets}
    \cup {<<"depthRenderTarget", 0>>, <<"vertexInput", 0>>, <<"rasterization", 0>>,
          <<"depthStencil", 0>>, <<"colorBlend", 0>>}

\* ------------------------------------------------------ PackedPipelineState
\* Variant: the format is stored in every slot.
SetColorRenderTargetFormatEverySlot(p, index, format) ==
    [p EXCEPT !.colorRenderTargetFormats = [i \in DOMAIN @ |-> format % ByteModulus]]

SetColorRenderTargetFormat(p, index, format) ==
    [p EXCEPT !.colorRenderTargetFormats[index] = format % ByteModulus]

SetDepthRenderTargetFormat(p, format) ==
    [p EXCEPT !.depthRenderTargetFormat =
                  ((format % ByteModulus) - (ZF32 % ByteModulus)) % ByteModulus]

SetVertexBinding(p, stride, enable, frequency, isInstanced) ==
    [p EXCEPT !.vertexBinding = [stride |-> stride,
                                 inputRate |-> IF isInstanced # 0 THEN "eInstance"
                                                                  ELSE "eVertex",
                                 enable |-> enable,
                                 divisor |-> frequency]]

SetTessellationParameters(p, parameters) ==
    [p EXCEPT !.domainType = parameters.domainType,
              !.spacing = parameters.spacing,
              !.outputPrimitives = parameters.outputPrimitives]

\* The switch has no break: each case runs on into the following ones and into the
\* default, which throws.
SetPolygonMode(w, mode) ==
    LET a == IF mode = "Fill" THEN "eFill" ELSE w.packedState.polygonMode
        b == IF mode \in {"Fill", "Line"} THEN "eLine" ELSE a
        c == IF mode \in {"Fill", "Line", "Point"} THEN "ePoint" ELSE b
    IN Throw([w EXCEPT !.packedState.polygonMode = c], "Invalid polygon mode")

\* Culling disabled: no face, return.  Enabled: the same switch without breaks.
SetCullMode(w, enable, mode) ==
    IF enable = 0
    THEN [w EXCEPT !.packedState.cullMode = {}]
    ELSE LET a == IF mode = "Front" THEN {"FRONT"} ELSE w.packedState.cullMode
             b == IF mode \in {"Front", "Back"} THEN {"BACK"} ELSE a
             c == IF mode \in {"Front", "Back", "FrontAndBack"}
                  THEN {"FRONT", "BACK"} ELSE b
         IN Throw([w EXCEPT !.packedState.cullMode = c], "Invalid cull mode")

CompareFuncInvalid(func) ==
    func < D3DNever \/ func > OglAlways \/ (func > D3DAlways /\ func < OglNever)

ConvertCompareFuncD3DOnly(func) == func - 1

\* The vk::CompareOp of a valid comparison function.
ConvertCompareFunc(func) == IF func >= OglNever THEN func - 512 ELSE func - 1

SetDepthFunc(w, func) ==
    IF CompareFuncInvalid(func)
    THEN Throw(w, "Invalid comparision function")
    ELSE [w EXCEPT !.packedState.depthFunc = ConvertCompareFunc(func)]

SetLogicOp(w, op) ==
    IF op < LogicOpClear \/ op > LogicOpSet
    THEN Throw(w, "Invalid logical operation")
    ELSE [w EXCEPT !.packedState.logicOp = op - LogicOpClear]

\* A conversion that throws yields this instead of a value.
Unsupported == "unsupported"

\* Variant: an operation without a case is kept.
ConvertStencilOpSubstituting(op) ==
    CASE op \in {"OglZero", "D3DZero"} -> "eZero"
      [] op \in {"D3DReplace", "OglReplace"} -> "eReplace"
      [] op \in {"D3DIncrSat", "OglIncrSat"} -> "eIncrementAndClamp"
      [] op \in {"D3DDecrSat", "OglDecrSat"} -> "eDecrementAndClamp"
      [] op \in {"D3DInvert", "OglInvert"} -> "eInvert"
      [] op \in {"D3DIncr", "OglIncr"} -> "eIncrementAndWrap"
      [] op \in {"D3DDecr", "OglDecr"} -> "eDecrementAndWrap"
      [] OTHER -> "eKeep"

ConvertStencilOp(op) ==
    CASE op \in {"OglZero", "D3DZero"} -> "eZero"
      [] op \in {"D3DKeep", "OglKeep"} -> "eKeep"
      [] op \in {"D3DReplace", "OglReplace"} -> "eReplace"
      [] op \in {"D3DIncrSat", "OglIncrSat"} -> "eIncrementAndClamp"
      [] op \in {"D3DDecrSat", "OglDecrSat"} -> "eDecrementAndClamp"
      [] op \in {"D3DInvert", "OglInvert"} -> "eInvert"
      [] op \in {"D3DIncr", "OglIncr"} -> "eIncrementAndWrap"
      [] op \in {"D3DDecr", "OglDecr"} -> "eDecrementAndWrap"
      [] OTHER -> Unsupported

\* Whether packing the operations throws, and the packed operations when it does not.
PackStencilOpsThrows(ops) ==
    \/ ConvertStencilOp(ops.zPass) = Unsupported
    \/ ConvertStencilOp(ops.fail) = Unsupported
    \/ ConvertStencilOp(ops.zFail) = Unsupported
    \/ CompareFuncInvalid(ops.func)

PackStencilOps(ops) ==
    [zPass |-> ConvertStencilOp(ops.zPass),
     fail |-> ConvertStencilOp(ops.fail),
     zFail |-> ConvertStencilOp(ops.zFail),
     func |-> ConvertCompareFunc(ops.func)]

SetStencilOps(w, front, back) ==
    IF PackStencilOpsThrows(front)
    THEN Throw(w, "Invalid stencil operation")
    ELSE LET w1 == [w EXCEPT !.packedState.stencilFront = PackStencilOps(front)]
         IN IF PackStencilOpsThrows(back)
            THEN Throw(w1, "Invalid stencil operation")
            ELSE [w1 EXCEPT !.packedState.stencilBack = PackStencilOps(back)]

\* A colour write register is the set of its enabled components.
ConvertColorWriteMask(write) ==
    {CASE c = "rEnable" -> "R_BIT" [] c = "gEnable" -> "G_BIT"
       [] c = "bEnable" -> "B_BIT" [] OTHER -> "A_BIT" : c \in write}

ConvertBlendOp(op) ==
    CASE op \in {"D3DAdd", "OglFuncAdd"} -> "eAdd"
      [] op \in {"D3DSubtract", "OglFuncSubtract"} -> "eSubtract"
      [] op \in {"D3DRevSubtract", "OglFuncReverseSubtract"} -> "eReverseSubtract"
      [] op \in {"D3DMin", "OglMin"} -> "eMin"
      [] op \in {"D3DMax", "OglMax"} -> "eMax"
      [] OTHER -> Unsupported

ConvertBlendFactor(coeff) ==
    CASE coeff \in {"OglZero", "D3DZero"} -> "eZero"
      [] coeff \in {"OglOne", "D3DOne"} -> "eOne"
      [] coeff \in {"OglSrcColor", "D3DSrcColor"} -> "eSrcColor"
      [] coeff \in {"OglOneMinusSrcColor", "D3DInvSrcColor"} -> "eOneMinusSrcColor"
      [] coeff \in {"OglSrcAlpha", "D3DSrcAlpha"} -> "eSrcAlpha"
      [] coeff \in {"OglOneMinusSrcAlpha", "D3DInvSrcAlpha"} -> "eOneMinusSrcAlpha"
      [] coeff \in {"OglDstAlpha", "D3DDstAlpha"} -> "eDstAlpha"
      [] coeff \in {"OglOneMinusDstAlpha", "D3DInvDstAlpha"} -> "eOneMinusDstAlpha"
      [] coeff \in {"OglDstColor", "D3DDstColor"} -> "eDstColor"
      [] coeff \in {"OglOneMinusDstColor", "D3DInvDstColor"} -> "eOneMinusDstColor"
      [] coeff \in {"OglSrcAlphaSaturate", "D3DSrcAlphaSaturate"} -> "eSrcAlphaSaturate"
      [] coeff \in {"OglConstantColor", "D3DBlendCoeff"} -> "eConstantColor"
      [] coeff \in {"OglOneMinusConstantColor", "D3DInvBlendCoeff"} ->
            "eOneMinusConstantColor"
      [] coeff = "OglConstantAlpha" -> "eConstantAlpha"
      [] coeff = "OglOneMinusConstantAlpha" -> "eOneMinusConstantAlpha"
      [] coeff \in {"OglSrc1Color", "D3DSrc1Color"} -> "eSrc1Color"
      [] coeff \in {"OglInvSrc1Color", "D3DInvSrc1Color"} -> "eOneMinusSrc1Color"
      [] coeff \in {"OglSrc1Alpha", "D3DSrc1Alpha"} -> "eSrc1Alpha"
      [] coeff \in {"OglInvSrc1Alpha", "D3DInvSrc1Alpha"} -> "eOneMinusSrc1Alpha"
      [] OTHER -> Unsupported

PackAttachmentBlendState(enable, writeMask, blend) ==
    [colorWriteMask |-> ConvertColorWriteMask(writeMask),
     colorBlendOp |-> ConvertBlendOp(blend.colorOp),
     srcColorBlendFactor |-> ConvertBlendFactor(blend.colorSourceCoeff),
     dstColorBlendFactor |-> ConvertBlendFactor(blend.colorDestCoeff),
     alphaBlendOp |-> ConvertBlendOp(blend.alphaOp),
     srcAlphaBlendFactor |-> ConvertBlendFactor(blend.alphaSourceCoeff),
     dstAlphaBlendFactor |-> ConvertBlendFactor(blend.alphaDestCoeff),
     blendEnable |-> enable]

SetAttachmentBlendState(w, index, enable, writeMask, blend) ==
    LET packed == PackAttachmentBlendState(enable, writeMask, blend)
    IN IF Unsupported \in {packed.colorBlendOp, packed.srcColorBlendFactor,
                           packed.dstColorBlendFactor, packed.alphaBlendOp,
                           packed.srcAlphaBlendFactor, packed.dstAlphaBlendFactor}
       THEN Throw(w, "Invalid blend state")
       ELSE [w EXCEPT !.packedState.attachmentBlendStates[index] = packed]

\* ------------------------------------------------------- leaf translators
\* No view, and the view the texture manager returns for a guest texture.
NullView == <<>>
FindOrCreate(guest) == <<guest>>

\* gmmu.TranslateRange and GuestTexture::GetSize, as the request they stand for.
GetSize(guest) ==
    [format |-> guest.format.name, dimensions |-> guest.dimensions,
     tileConfig |-> guest.tileConfig, layerCount |-> guest.layerCount,
     layerStride |-> guest.layerStride]

TranslateRange(offset, size) == <<[address |-> offset, size |-> size]>>

\* Variant: a disabled target keeps the view of an earlier flush.
RenderTargetDisabledKeepingView(w, me) == w

\* A disabled target: the translator's view becomes null.
RenderTargetDisabled(w, me) == [w EXCEPT !.view[me] = NullView]

\* ConvertColorRenderTargetFormat on the formats the runs use; any other value throws.
ColorRenderTargetFormatSupported(format) == format \in {A8R8G8B8, R5G6B5}

ConvertColorRenderTargetFormat(format) ==
    IF format = A8R8G8B8
    THEN [name |-> "B8G8R8A8Unorm", bpb |-> 4, vkAspect |-> "eColor"]
    ELSE [name |-> "R5G6B5Unorm", bpb |-> 2, vkAspect |-> "eColor"]

\* TargetMemory::BlockHeight / BlockDepth and ColorTarget::ArrayPitch
BlockSize(log2) == 2 ^ log2
ArrayPitch(arrayPitchLsr2) == arrayPitchLsr2 * 4

\* Variant: the third dimension always counts layers.
ColorLayersAlwaysArray(thirdDimensionDefinesArraySize, thirdDimension) ==
    [layerCount |-> thirdDimension, depth |-> 1]

\* The layer count and the depth of a colour target.
ColorLayers(thirdDimensionDefinesArraySize, thirdDimension) ==
    [layerCount |-> IF thirdDimensionDefinesArraySize THEN thirdDimension ELSE 1,
     depth |-> IF thirdDimensionDefinesArraySize THEN 1 ELSE thirdDimension]

\* ColorRenderTargetState::Flush
ColorRenderTargetFlush(w, e, index) ==
    LET target == [f \in {"format", "layerOffset", "thirdDimensionControl",
                          "thirdDimension", "layout", "width", "height",
                          "blockHeightLog2", "blockDepthLog2", "arrayPitchLsr2",
                          "offset"} |-> e[<<"colorTarget", index, f>>]]
        me == ColorRenderTargetName(index)
        w1 == [w EXCEPT !.packedState =
                            SetColorRenderTargetFormat(@, index, target.format)]
        format == ConvertColorRenderTargetFormat(target.format)
        thirdDimensionDefinesArraySize ==
            target.thirdDimensionControl = "ThirdDimensionDefinesArraySize"
        layerCount == ColorLayers(thirdDimensionDefinesArraySize,
                                  target.thirdDimension).layerCount
        depth == ColorLayers(thirdDimensionDefinesArraySize, target.thirdDimension).depth
        guest0 ==
            [format |-> format, aspect |-> "eColor",
             baseArrayLayer |-> target.layerOffset,
             layerCount |-> layerCount,
             viewType |-> IF target.thirdDimension > 1 THEN "e2DArray" ELSE "e2D",
             dimensions |-> IF target.layout = "Pitch"
                            THEN <<target.width \div format.bpb, target.height, depth>>
                            ELSE <<target.width, target.height, depth>>,
             tileConfig |-> IF target.layout = "Pitch"
                            THEN [mode |-> "Linear"]
                            ELSE [mode |-> "Block",
                                  blockHeight |-> BlockSize(target.blockHeightLog2),
                                  blockDepth |-> BlockSize(target.blockDepthLog2)],
             layerStride |-> IF target.layerOffset > 1 \/ layerCount > 1
                             THEN ArrayPitch(target.arrayPitchLsr2) ELSE 0]
        guest == [f \in DOMAIN guest0 \cup {"mappings"} |->
                     IF f = "mappings"
                     THEN TranslateRange(target.offset, GetSize(guest0))
                     ELSE guest0[f]]
    IN IF target.format = Disabled
       THEN RenderTargetDisabled(w1, me)
       ELSE IF ~ColorRenderTargetFormatSupported(target.format)
            THEN Throw(w1, "Unsupported colour rendertarget format")
            ELSE [w1 EXCEPT !.view[me] = FindOrCreate(guest)]

\* ConvertDepthRenderTargetFormat on the formats the runs use; any other value throws.
DepthRenderTargetFormatSupported(format) == format \in {ZF32, Z16}

ConvertDepthRenderTargetFormat(format) ==
    IF format = ZF32
    THEN [name |-> "D32Float", vkAspect |-> "eDepth"]
    ELSE [name |-> "D16Unorm", vkAspect |-> "eDepth"]

\* Variant: the third dimension is the layer count under either control value.
DepthLayersAlwaysThird(control, thirdDimension) ==
    [layerCount |-> thirdDimension,
     viewType |-> IF control = "ArraySizeIsOne" THEN "e2D" ELSE "e2DArray"]

\* The layer count and view type DepthRenderTargetState::Flush chooses; the control
\* field has these two values only.
DepthLayers(control, thirdDimension) ==
    CASE control = "ThirdDimensionDefinesArraySize" ->
            [layerCount |-> thirdDimension, viewType |-> "e2DArray"]
      [] control = "ArraySizeIsOne" -> [layerCount |-> 1, viewType |-> "e2D"]

\* DepthRenderTargetState::Flush
DepthRenderTargetFlush(w, e) ==
    LET zt == [f \in {"ztFormat", "targetCount", "layerOffset", "control",
                      "thirdDimension", "width", "height", "blockHeightLog2",
                      "blockDepthLog2", "ztArrayPitch", "ztOffset"} |->
                  e[<<"zt", 0, f>>]]
        me == <<"depthRenderTarget", 0>>
        w1 == [w EXCEPT !.packedState = SetDepthRenderTargetFormat(@, zt.ztFormat)]
        format == ConvertDepthRenderTargetFormat(zt.ztFormat)
        layers == DepthLayers(zt.control, zt.thirdDimension)
        guest0 ==
            [format |-> format, aspect |-> format.vkAspect,
             baseArrayLayer |-> zt.layerOffset,
             layerCount |-> layers.layerCount,
             viewType |-> layers.viewType,
             dimensions |-> <<zt.width, zt.height, 1>>,
             tileConfig |-> [mode |-> "Block",
                             blockHeight |-> BlockSize(zt.blockHeightLog2),
                             blockDepth |-> BlockSize(zt.blockDepthLog2)],
             layerStride |-> IF zt.layerOffset > 1 \/ layers.layerCount > 1
                             THEN zt.ztArrayPitch ELSE 0]
        guest == [f \in DOMAIN guest0 \cup {"mappings"} |->
                     IF f = "mappings"
                     THEN TranslateRange(zt.ztOffset, GetSize(guest0))
                     ELSE guest0[f]]
    IN IF zt.targetCount = 0
       THEN RenderTargetDisabled(w1, me)
       ELSE IF ~DepthRenderTargetFormatSupported(zt.ztFormat)
            THEN Throw(w1, "Unsupported depth rendertarget format")
            ELSE [w1 EXCEPT !.view[me] = FindOrCreate(guest)]

\* VertexInputState::Flush (one vertex stream and one attribute, scaled)
VertexInputFlush(w, e) ==
    [w EXCEPT !.packedState =
        [SetVertexBinding(@, e[<<"vertexStreams", 0, "stride">>],
                          e[<<"vertexStreams", 0, "enable">>],
                          e[<<"vertexStreams", 0, "frequency">>],
                          e[<<"vertexStreamInstance", 0, "isInstanced">>])
         EXCEPT !.vertexAttribute = e[<<"vertexAttributes", 0, "raw">>]]]

\* The FORMAT_*_CASE macros of ConvertVertexInputAttributeFormat: the numerical
\* types each macro has a case for.
FormatIntTypes == {"Uint", "Sint"}

FormatIntFloatTypes == FormatIntTypes \cup {"Float"}

FormatNormIntScaledTypes == FormatIntTypes \cup {"Unorm", "Snorm", "Uscaled", "Sscaled"}

FormatNormIntScaledFloatTypes == FormatNormIntScaledTypes \cup {"Float"}

\* The vkType each FORMAT_CASE pastes after the format name.
FormatCaseVkType(bitWidths, type) ==
    CASE type = "Uint" -> "Uint"
      [] type = "Sint" -> "Sint"
      [] type = "Unorm" -> "Unorm"
      [] type = "Snorm" -> "Unorm"
      [] type = "Uscaled" -> "Uscaled"
      [] type = "Sscaled" -> "Sscaled"
      [] type = "Float" -> IF bitWidths = "B10G11R11" THEN "Ufloat" ELSE "Sfloat"

\* The cases of the switch: for each component layout the numerical types it
\* has cases for, the format name and the suffix.
VertexFormatCases ==
    [R8 |-> [types |-> FormatNormIntScaledTypes, vkFormat |-> "eR8", suffix |-> ""],
     R8_G8 |-> [types |-> FormatNormIntScaledTypes, vkFormat |-> "eR8G8", suffix |-> ""],
     G8R8 |-> [types |-> FormatNormIntScaledTypes, vkFormat |-> "eR8G8", suffix |-> ""],
     R8_G8_B8 |-> [types |-> FormatNormIntScaledTypes, vkFormat |-> "eR8G8B8", suffix |-> ""],
     R8_G8_B8_A8 |-> [types |-> FormatNormIntScaledTypes, vkFormat |-> "eR8G8B8A8", suffix |-> ""],
     A8B8G8R8 |-> [types |-> FormatNormIntScaledTypes, vkFormat |-> "eR8G8B8A8", suffix |-> ""],
     X8B8G8R8 |-> [types |-> FormatNormIntScaledTypes, vkFormat |-> "eR8G8B8A8", suffix |-> ""],
     R16 |-> [types |-> FormatNormIntScaledFloatTypes, vkFormat |-> "eR16", suffix |-> ""],
     R16_G16 |-> [types |-> FormatNormIntScaledFloatTypes, vkFormat |-> "eR16G16", suffix |-> ""],
     R16_G16_B16 |-> [types |-> FormatNormIntScaledFloatTypes, vkFormat |-> "eR16G16B16",
                      suffix |-> ""],
     R16_G16_B16_A16 |-> [types |-> FormatNormIntScaledFloatTypes, vkFormat |-> "eR16G16B16A16",
                          suffix |-> ""],
     R32 |-> [types |-> FormatIntFloatTypes, vkFormat |-> "eR32", suffix |-> ""],
     R32_G32 |-> [types |-> FormatIntFloatTypes, vkFormat |-> "eR32G32", suffix |-> ""],
     R32_G32_B32 |-> [types |-> FormatIntFloatTypes, vkFormat |-> "eR32G32B32", suffix |-> ""],
     R32_G32_B32_A32 |-> [types |-> FormatIntFloatTypes, vkFormat |-> "eR32G32B32A32",
                          suffix |-> ""],
     A2B10G10R10 |-> [types |-> FormatNormIntScaledTypes, vkFormat |-> "eA2B10G10R10",
                      suffix |-> "Pack32"],
     B10G11R11 |-> [types |-> {"Float"}, vkFormat |-> "eB10G11R11", suffix |-> "Pack32"]]

\* vk::Format::eR8G8B8A8Unorm
R8G8B8A8Unorm == [vkFormat |-> "eR8G8B8A8", vkType |-> "Unorm", suffix |-> ""]

\* ConvertVertexInputAttributeFormat: the value returned is left in `returned`.
ConvertVertexInputAttributeFormat(w, componentBitWidths, numericalType) ==
    IF /\ componentBitWidths \in DOMAIN VertexFormatCases
       /\ numericalType \in VertexFormatCases[componentBitWidths].types
    THEN [w EXCEPT !.returned =
             <<[vkFormat |-> VertexFormatCases[componentBitWidths].vkFormat,
                vkType |-> FormatCaseVkType(componentBitWidths, numericalType),
                suffix |-> VertexFormatCases[componentBitWidths].suffix]>>]
    ELSE [Warn(w, "Unimplemented Maxwell3D Vertex Buffer Format")
          EXCEPT !.returned = <<R8G8B8A8Unorm>>]

\* The cases of ConvertPrimitiveTopology.
PrimitiveTopologyCases ==
    [Points |-> <<"ePointList", "Points">>,
     Lines |-> <<"eLineList", "Lines">>,
     LineStrip |-> <<"eLineStrip", "Lines">>,
     Triangles |-> <<"eTriangleList", "Triangles">>,
     TriangleStrip |-> <<"eTriangleStrip", "Triangles">>,
     TriangleFan |-> <<"eTriangleFan", "Triangles">>,
     Quads |-> <<"eTriangleList", "Triangles">>,
     LineListAdjcy |-> <<"eLineListWithAdjacency", "Lines">>,
     LineStripAdjcy |-> <<"eLineStripWithAdjacency", "Lines">>,
     TriangleListAdjcy |-> <<"eTriangleListWithAdjacency", "Triangles">>,
     TriangleStripAdjcy |-> <<"eTriangleStripWithAdjacency", "Triangles">>,
     Patch |-> <<"ePatchList", "Triangles">>]

\* Variant: a topology without a case is drawn as points.
ConvertPrimitiveTopologyAsPoints(w, topology) ==
    IF topology \in DOMAIN PrimitiveTopologyCases
    THEN [w EXCEPT !.returned = <<PrimitiveTopologyCases[topology]>>]
    ELSE [Warn(w, "Unimplemented input assembly topology")
          EXCEPT !.returned = <<<<"ePointList", "Points">>>>]

\* ConvertPrimitiveTopology: the pair returned is left in `returned`.
ConvertPrimitiveTopology(w, topology) ==
    IF topology \in DOMAIN PrimitiveTopologyCases
    THEN [w EXCEPT !.returned = <<PrimitiveTopologyCases[topology]>>]
    ELSE [Warn(w, "Unimplemented input assembly topology")
          EXCEPT !.returned = <<<<"eTriangleList", "Triangles">>>>]

\* InputAssemblyState::Update
InputAssemblyUpdate(w, e) ==
    [w EXCEPT !.packedState.topology = e[<<"inputAssembly", 0, "currentEngineTopology">>],
              !.packedState.primitiveRestartEnabled =
                  e[<<"inputAssembly", 0, "primitiveRestartEnable">>] % 2]

\* TessellationState::Update
TessellationUpdate(w, e) ==
    [w EXCEPT !.packedState =
        SetTessellationParameters(
            [@ EXCEPT !.patchSize = e[<<"tessellation", 0, "patchSize">>]],
            [domainType |-> e[<<"tessellation", 0, "domainType">>],
             spacing |-> e[<<"tessellation", 0, "spacing">>],
             outputPrimitives |-> e[<<"tessellation", 0, "outputPrimitives">>]])]

\* ConvertDepthBiasEnable: the enable bit of a polygon mode; any other mode throws.
DepthBiasModes == {"Point", "Line", "Fill"}

ConvertDepthBiasEnable(polyOffset, polygonMode) ==
    CASE polygonMode = "Point" -> polyOffset.pointEnable
      [] polygonMode = "Line" -> polyOffset.lineEnable
      [] polygonMode = "Fill" -> polyOffset.fillEnable

\* RasterizationState::Flush
RasterizationFlush(w, e) ==
    LET r == [f \in {"rasterEnable", "frontPolygonMode", "backPolygonMode",
                     "oglCullEnable", "oglCullFace", "oglFrontFace", "flipY",
                     "provokingVertex"} |-> e[<<"rasterization", 0, f>>]]
        polyOffset == [f \in {"pointEnable", "lineEnable", "fillEnable"} |->
                          e[<<"polyOffset", 0, f>>]]
        w1 == [w EXCEPT !.packedState.rasterizerDiscardEnable =
                            IF r.rasterEnable = 0 THEN 1 ELSE 0]
        w2 == SetPolygonMode(w1, r.frontPolygonMode)
        w3 == IF r.backPolygonMode # r.frontPolygonMode
              THEN Warn(w2, "Non-matching polygon modes!")
              ELSE w2
        w4 == SetCullMode(w3, r.oglCullEnable, r.oglCullFace)
        flipYEnable == r.flipY
        origFrontFaceClockwise == IF r.oglFrontFace = "CW" THEN 1 ELSE 0
        w5 == [w4 EXCEPT !.packedState.flipYEnable = flipYEnable,
                         !.packedState.frontFaceClockwise =
                             IF flipYEnable # origFrontFaceClockwise THEN 1 ELSE 0]
    IN IF w2.thrown # "" THEN w2
       ELSE IF w4.thrown # "" THEN w4
       ELSE IF r.frontPolygonMode \notin DepthBiasModes
            THEN Throw(w5, "Invalid polygon mode")
            ELSE [w5 EXCEPT !.packedState.depthBiasEnable =
                                ConvertDepthBiasEnable(polyOffset, r.frontPolygonMode),
                            !.packedState.provokingVertex = r.provokingVertex]

\* The stencil operations of one face in the register file.
StencilOpsOf(e, group) ==
    [zPass |-> e[<<group, 0, "zPass">>], zFail |-> e[<<group, 0, "zFail">>],
     fail |-> e[<<group, 0, "fail">>], func |-> e[<<group, 0, "func">>]]

\* DepthStencilState::Flush: the back face chosen at line 731 is not used, both faces
\* are given the stencilOps registers.
DepthStencilFlush(w, e) ==
    LET d == [f \in {"depthTestEnable", "depthWriteEnable", "depthFunc",
                     "depthBoundsTestEnable", "stencilTestEnable",
                     "twoSidedStencilTestEnable"} |-> e[<<"depthStencil", 0, f>>]]
        w1 == [w EXCEPT !.packedState.depthTestEnable = d.depthTestEnable,
                        !.packedState.depthWriteEnable = d.depthWriteEnable]
        w2 == SetDepthFunc(w1, d.depthFunc)
        w3 == [w2 EXCEPT !.packedState.depthBoundsTestEnable = d.depthBoundsTestEnable,
                         !.packedState.stencilTestEnable = d.stencilTestEnable]
        stencilBack == IF d.twoSidedStencilTestEnable # 0
                       THEN StencilOpsOf(e, "stencilBack")
                       ELSE StencilOpsOf(e, "stencilOps")
    IN IF w2.thrown # "" THEN w2
       ELSE SetStencilOps(w3, StencilOpsOf(e, "stencilOps"), StencilOpsOf(e, "stencilOps"))

\* The blend registers of target i, or the shared ones.
BlendOf(e, group, index) ==
    [f \in {"colorOp", "colorSourceCoeff", "colorDestCoeff", "alphaOp",
            "alphaSourceCoeff", "alphaDestCoeff"} |-> e[<<group, index, f>>]]

\* The loop of ColorBlendState::Flush from target i on; a throw leaves the loop.
RECURSIVE ColorBlendTargets(_, _, _)
ColorBlendTargets(w, e, i) ==
    IF i >= ColorTargetCount \/ w.thrown # ""
    THEN w
    ELSE LET ctWrite == IF e[<<"colorBlend", 0, "singleCtWriteControl">>] # 0
                        THEN e[<<"ctWrites", 0, "mask">>]
                        ELSE e[<<"ctWrites", i, "mask">>]
             enable == e[<<"blendEnable", i, "enable">>] # 0
             blend == IF e[<<"colorBlend", 0, "blendStatePerTargetEnable">>] # 0
                      THEN BlendOf(e, "blendPerTargets", i)
                      ELSE BlendOf(e, "blend", 0)
         IN ColorBlendTargets(SetAttachmentBlendState(w, i, enable, ctWrite, blend),
                              e, i + 1)

\* ColorBlendState::Flush
ColorBlendFlush(w, e) ==
    LET w1 == [w EXCEPT !.packedState.logicOpEnable = e[<<"logicOp", 0, "enable">>]]
        w2 == SetLogicOp(w1, e[<<"logicOp", 0, "func">>])
    IN ColorBlendTargets(w2, e, 0)

\* GlobalShaderConfigState::Update
GlobalShaderConfigUpdate(w, e) ==
    [w EXCEPT !.packedState.postVtgShaderAttributeSkipMask =
                  e[<<"globalShaderConfig", 0, "postVtgShaderAttributeSkipMask">>],
              !.packedState.bindlessTextureConstantBufferSlotSelect =
                  e[<<"globalShaderConfig", 0, "constantBufferSlotSelect">>]]

\* ------------------------------------------------------------ PipelineState
\* The step a flush of translator t runs.
LeafFlush(w, e, t) ==
    CASE t[1] = "colorRenderTarget" -> ColorRenderTargetFlush(w, e, t[2])
      [] t[1] = "depthRenderTarget" -> DepthRenderTargetFlush(w, e)
      [] t[1] = "vertexInput" -> VertexInputFlush(w, e)
      [] t[1] = "inputAssembly" -> InputAssemblyUpdate(w, e)
      [] t[1] = "tessellation" -> TessellationUpdate(w, e)
      [] t[1] = "rasterization" -> RasterizationFlush(w, e)
      [] t[1] = "depthStencil" -> DepthStencilFlush(w, e)
      [] t[1] = "colorBlend" -> ColorBlendFlush(w, e)
      [] t[1] = "globalShaderConfig" -> GlobalShaderConfigUpdate(w, e)

\* dirty::ManualDirtyState::Update: consume the dirty flag, flush when it was set.
ManualDirtyStateUpdate(w, e, t) ==
    IF t \in w.dirty
    THEN LeafFlush([w EXCEPT !.dirty = @ \ {t}, !.flushes = Append(@, t)], e, t)
    ELSE w

\* The update step of translator t: through the dirty-state wrapper for the
\* translators held in one, the member's own Update otherwise.
Update(w, e, t) ==
    LET w1 == [w EXCEPT !.updates = Append(@, t)]
    IN IF t \in DirtyTracked
       THEN ManualDirtyStateUpdate(w1, e, t)
       ELSE LeafFlush([w1 EXCEPT !.flushes = Append(@, t)], e, t)

\* The updates of PipelineState::Flush from the n-th translator on; a throw ends them.
RECURSIVE UpdateFrom(_, _, _)
UpdateFrom(w, e, n) ==
    IF n > Len(Translators) \/ w.thrown # ""
    THEN w
    ELSE UpdateFrom(Update(w, e, Translators[n]), e, n + 1)

\* PipelineState::Flush: the update of every translator in order.  The attachment
\* lists and the dynamic-state description it builds are locals and are dropped.
PipelineFlush(w, e) == UpdateFrom(w, e, 1)

\* DirtyBind: the register groups bound to each translator's handle.
DirtyBind(t) ==
    CASE t[1] = "colorRenderTarget" -> {<<"colorTarget", t[2]>>}
      [] t[1] = "depthRenderTarget" -> {<<"zt", 0>>}
      [] t[1] = "vertexInput" ->
            {<<"vertexStreams", 0>>, <<"vertexStreamInstance", 0>>,
             <<"vertexAttributes", 0>>}
      [] t[1] = "inputAssembly" -> {<<"inputAssembly", 0>>}
      [] t[1] = "tessellation" -> {<<"tessellation", 0>>}
      [] t[1] = "rasterization" -> {<<"rasterization", 0>>, <<"polyOffset", 0>>}
      [] t[1] = "depthStencil" ->
            {<<"depthStencil", 0>>, <<"stencilOps", 0>>, <<"stencilBack", 0>>}
      [] t[1] = "colorBlend" ->
            {<<"logicOp", 0>>, <<"colorBlend", 0>>, <<"blend", 0>>}
            \cup {<<g, i>> : g \in {"ctWrites", "blendEnable", "blendPerTargets"},
                             i \in ColorTargets}
      [] t[1] = "globalShaderConfig" -> {<<"globalShaderConfig", 0>>}

\* PipelineState::EngineRegisters::DirtyBind: the register groups bound to the
\* handle of the pipeline state itself, those of the render targets and the vertex input.
PipelineStateDirtyBind ==
    UNION {DirtyBind(ColorRenderTargetName(i)) : i \in ColorTargets}
    \cup DirtyBind(<<"depthRenderTarget", 0>>)
    \cup DirtyBind(<<"vertexInput", 0>>)

\* DirtyManager::MarkDirty for a register: the wrapped translators bound to it.
MarkDirtyHandles(key) == {t \in DirtyTracked : <<key[1], key[2]>> \in DirtyBind(t)}

\* A register write that reaches the register file: lines 87-88 and 150-151 of the
\* dispatcher, a changed value marks the bound handles dirty.
RegisterWrite(w, e, key, value) ==
    IF e[key] = value
    THEN w
    ELSE [w EXCEPT !.dirty = @ \cup MarkDirtyHandles(key)]

\* ------------------------------------------------------- the register file
\* The registers the translators read, by group, with the values they hold after
\* construction (InitializeRegisters): every enumeration valid, no target enabled.
FieldDefaults ==
    [colorTarget |->
        [format |-> Disabled, layerOffset |-> 0,
         thirdDimensionControl |-> "ThirdDimensionDefinesArraySize",
         thirdDimension |-> 1, layout |-> "BlockLinear", width |-> 0, height |-> 0,
         blockHeightLog2 |-> 0, blockDepthLog2 |-> 0, arrayPitchLsr2 |-> 0,
         offset |-> 0],
     zt |->
        [ztFormat |-> ZF32, targetCount |-> 0, layerOffset |-> 0,
         control |-> "ThirdDimensionDefinesArraySize", thirdDimension |-> 1,
         width |-> 0, height |-> 0, blockHeightLog2 |-> 0, blockDepthLog2 |-> 0,
         ztArrayPitch |-> 0, ztOffset |-> 0],
     vertexStreams |-> [stride |-> 0, enable |-> 0, frequency |-> 0],
     vertexStreamInstance |-> [isInstanced |-> 0],
     vertexAttributes |-> [raw |-> 0],
     inputAssembly |-> [currentEngineTopology |-> "Points", primitiveRestartEnable |-> 0],
     tessellation |->
        [patchSize |-> 0, domainType |-> "Isoline", spacing |-> "Integer",
         outputPrimitives |-> "Points"],
     rasterization |->
        [rasterEnable |-> 1, frontPolygonMode |-> "Fill", backPolygonMode |-> "Fill",
         oglCullEnable |-> 0, oglCullFace |-> "Back", oglFrontFace |-> "CCW",
         flipY |-> 0, provokingVertex |-> "Last"],
     polyOffset |-> [pointEnable |-> 0, lineEnable |-> 0, fillEnable |-> 0],
     depthStencil |->
        [depthTestEnable |-> 0, depthWriteEnable |-> 1, depthFunc |-> D3DAlways,
         depthBoundsTestEnable |-> 0, stencilTestEnable |-> 0,
         twoSidedStencilTestEnable |-> 0],
     stencilOps |->
        [zPass |-> "D3DKeep", zFail |-> "D3DKeep", fail |-> "D3DKeep",
         func |-> D3DAlways],
     stencilBack |->
        [zPass |-> "D3DKeep", zFail |-> "D3DKeep", fail |-> "D3DKeep",
         func |-> D3DAlways],
     logicOp |-> [enable |-> 0, func |-> LogicOpClear],
     colorBlend |-> [singleCtWriteControl |-> 0, blendStatePerTargetEnable |-> 0],
     ctWrites |-> [mask |-> {"rEnable", "gEnable", "bEnable", "aEnable"}],
     blendEnable |-> [enable |-> 0],
     blend |->
        [colorOp |-> "D3DAdd", colorSourceCoeff |-> "D3DOne",
         colorDestCoeff |-> "D3DZero", alphaOp |-> "D3DAdd",
         alphaSourceCoeff |-> "D3DOne", alphaDestCoeff |-> "D3DZero"],
     blendPerTargets |->
        [colorOp |-> "D3DAdd", colorSourceCoeff |-> "D3DOne",
         colorDestCoeff |-> "D3DZero", alphaOp |-> "D3DAdd",
         alphaSourceCoeff |-> "D3DOne", alphaDestCoeff |-> "D3DZero"],
     globalShaderConfig |->
        [postVtgShaderAttributeSkipMask |-> 0, constantBufferSlotSelect |-> 0]]

\* The groups that exist once per colour target.
PerTargetGroups == {"colorTarget", "ctWrites", "blendEnable", "blendPerTargets"}

RegisterKeys ==
    UNION {{<<g, i, f>> : i \in (IF g \in PerTargetGroups THEN ColorTargets ELSE {0}),
                          f \in DOMAIN FieldDefaults[g]} : g \in DOMAIN FieldDefaults}

InitialRegisters == [k \in RegisterKeys |-> FieldDefaults[k[1]][k[3]]]

\* The packed pipeline state of a new PipelineState: every field zero.
InitialPackedState ==
    [colorRenderTargetFormats |-> [i \in ColorTargets |-> 0],
     depthRenderTargetFormat |-> 0,
     vertexBinding |-> [stride |-> 0, inputRate |-> "eVertex", enable |-> 0,
                        divisor |-> 0],
     vertexAttribute |-> 0,
     topology |-> "Points", primitiveRestartEnabled |-> 0,
     patchSize |-> 0, domainType |-> "Isoline", spacing |-> "Integer",
     outputPrimitives |-> "Points",
     rasterizerDiscardEnable |-> 0, polygonMode |-> "eFill", cullMode |-> {},
     flipYEnable |-> 0, frontFaceClockwise |-> 0, depthBiasEnable |-> 0,
     provokingVertex |-> "First",
     depthTestEnable |-> 0, depthWriteEnable |-> 0, depthFunc |-> 0,
     depthBoundsTestEnable |-> 0, stencilTestEnable |-> 0,
     stencilFront |-> [zPass |-> "eKeep", fail |-> "eKeep", zFail |-> "eKeep",
                       func |-> 0],
     stencilBack |-> [zPass |-> "eKeep", fail |-> "eKeep", zFail |-> "eKeep",
                      func |-> 0],
     logicOpEnable |-> 0, logicOp |-> 0,
     attachmentBlendStates |->
        [i \in ColorTargets |->
            [colorWriteMask |-> {}, colorBlendOp |-> "eAdd",
             srcColorBlendFactor |-> "eZero", dstColorBlendFactor |-> "eZero",
             alphaBlendOp |-> "eAdd", srcAlphaBlendFactor |-> "eZero",
             dstAlphaBlendFactor |-> "eZero", blendEnable |-> FALSE]],
     postVtgShaderAttributeSkipMask |-> 0,
     bindlessTextureConstantBufferSlotSelect |-> 0]

\* A new PipelineState: nothing packed, no view, every wrapped translator dirty.
PipelineConstructed ==
    /\ engine = InitialRegisters
    /\ packedState = InitialPackedState
    /\ dirtyState = DirtyTracked
    /\ view = [t \in {ColorRenderTargetName(i) : i \in ColorTargets}
                     \cup {<<"depthRenderTarget", 0>>} |-> NullView]
    /\ phist = <<>>

\* -------------------------------------------------------------- the machine
\* The dispatcher's state as one record.
Cur ==
    [registers |-> registers, shadowRegisters |-> shadowRegisters,
     batchLoadConstantBuffer |-> batchLoadConstantBuffer,
     deferredDraw |-> deferredDraw, macroState |-> macroState]

Snapshot(s) ==
    [registers |-> s.registers, shadowRegisters |-> s.shadowRegisters,
     batchLoadConstantBuffer |-> s.batchLoadConstantBuffer,
     deferredDraw |-> s.deferredDraw, macroState |-> s.macroState]

\* The state a handler starts from: nothing emitted, marked, logged or thrown yet.
Work(c) ==
    [registers |-> c.registers, shadowRegisters |-> c.shadowRegisters,
     batchLoadConstantBuffer |-> c.batchLoadConstantBuffer,
     deferredDraw |-> c.deferredDraw, macroState |-> c.macroState,
     calls |-> <<>>, dirty |-> {}, warn |-> <<>>, thrown |-> "", ret |-> FALSE]

Event(op, method, argument, pre, r) ==
    [op |-> op, method |-> method, argument |-> argument, pre |-> pre,
     calls |-> r.calls, dirty |-> r.dirty, warn |-> r.warn, thrown |-> r.thrown]

\* One HandleMethod call on the run st = [cur, hist].
WriteOne(st, method, argument) ==
    LET r == HandleMethod(Work(st.cur), method, argument)
    IN [cur |-> Snapshot(r),
        hist |-> Append(st.hist, Event("write", method, argument, st.cur, r))]

\* The loop of CallMethodBatchNonInc; an exception leaves the loop.
RECURSIVE WriteAll(_, _, _)
WriteAll(st, method, arguments) ==
    IF arguments = <<>>
    THEN st
    ELSE LET n == WriteOne(st, method, Head(arguments))
         IN IF n.hist[Len(n.hist)].thrown # ""
            THEN n
            ELSE WriteAll(n, method, Tail(arguments))

\* Variant: the inline-data load is split into per-word calls like any other method.
BatchNonIncSplitting(st, method, arguments) == WriteAll(st, method, arguments)

\* Maxwell3D::CallMethodBatchNonInc
BatchNonInc(st, method, arguments) ==
    IF method = "i2m.loadInlineData"
    THEN LET r == Emit(Work(st.cur), "i2m.LoadInlineData", <<arguments>>)
         IN [cur |-> Snapshot(r),
             hist |-> Append(st.hist, Event("inline", method, 0, st.cur, r))]
    ELSE WriteAll(st, method, arguments)

Become(st) ==
    /\ registers' = st.cur.registers
    /\ shadowRegisters' = st.cur.shadowRegisters
    /\ batchLoadConstantBuffer' = st.cur.batchLoadConstantBuffer
    /\ deferredDraw' = st.cur.deferredDraw
    /\ macroState' = st.cur.macroState
    /\ hist' = st.hist
    /\ UNCHANGED <<pipelineVars, serviceVars>>

\* The dispatcher after construction.
\* ------------------------------------------------------ the random service
\* Number of GetRandomBytes calls in one run of the process.
MaxCalls == 2

\* The runs of the process that are compared.
Runs == {1, 2}

\* The generator is scaled to a state of 5 bits: a full-period congruential
\* generator stands for std::mt19937.
RngModulus == 2 ^ 5

\* std::mt19937::default_seed, scaled
DefaultSeed == 5489 % RngModulus

\* std::mt19937::operator(): the state after one draw.
Mt19937Next(x) == (x * 5 + 3) % RngModulus

\* distribution(rng) cast to u8: one draw of the generator, reduced to a byte.
DrawByte(x) == [state |-> Mt19937Next(x), value |-> Mt19937Next(x) % ByteModulus]

\* std::generate over a vector of n bytes, from generator state x.
RECURSIVE Generate(_, _)
Generate(x, n) ==
    IF n = 0
    THEN [state |-> x, data |-> <<>>]
    ELSE LET d == DrawByte(x)
             rest == Generate(d.state, n - 1)
         IN [state |-> rest.state, data |-> <<d.value>> \o rest.data]

\* Variant: every call starts from a generator seeded anew.
GetRandomBytesReseeding(run, session, size) ==
    LET g == Generate(DefaultSeed, size)
    IN /\ Len(randomCalls[run]) < MaxCalls
       /\ rng' = [rng EXCEPT ![run] = g.state]
       /\ randomCalls' = [randomCalls EXCEPT ![run] =
              Append(@, [session |-> session, size |-> size, outBuf |-> g.data,
                         result |-> "Success"])]
       /\ UNCHANGED <<dispatcherVars, pipelineVars>>

\* IRandomInterface::GetRandomBytes, called in run `run` of the process by a
\* session with an output buffer of `size` bytes.
GetRandomBytes(run, session, size) ==
    LET g == Generate(rng[run], size)
    IN /\ Len(randomCalls[run]) < MaxCalls
       /\ rng' = [rng EXCEPT ![run] = g.state]
       /\ randomCalls' = [randomCalls EXCEPT ![run] =
              Append(@, [session |-> session, size |-> size, outBuf |-> g.data,
                         result |-> "Success"])]
       /\ UNCHANGED <<dispatcherVars, pipelineVars>>

\* The generator is constructed without a seed when the process starts.
ServiceInit ==
    /\ rng = [run \in Runs |-> DefaultSeed]
    /\ randomCalls = [run \in Runs |-> <<>>]

\* The sessions that call and the sizes of their output buffers.
Sessions == {1, 2}

BufferSizes == {0, 1, 2}

RandomNext ==
    \E run \in Runs, session \in Sessions, size \in BufferSizes :
        GetRandomBytes(run, session, size)

DispatcherInit ==
    /\ registers = [m \in Methods |-> 0]
    /\ shadowRegisters = [m \in Methods |-> 0]
    /\ batchLoadConstantBuffer = [active |-> FALSE, startOffset |-> 0, buffer |-> <<>>]
    /\ deferredDraw = [pending |-> FALSE, indexed |-> FALSE, drawTopology |-> 0,
                       instanceCount |-> 1, drawCount |-> 0, drawFirst |-> 0,
                       drawBaseVertex |-> 0, drawBaseInstance |-> 0]
    /\ macroState = [macroCode |-> [p \in 0..(MacroCodeSize - 1) |-> 0],
                     macroPositions |-> [p \in 0..(MacroPositionsSize - 1) |-> 0]]
    /\ hist = <<>>

Init == DispatcherInit /\ PipelineConstructed /\ ServiceInit

RandomSpec == Init /\ [][RandomNext]_vars

\* Maxwell3D::CallMethod
CallMethod(method, argument) ==
    /\ Len(hist) < MaxSteps
    /\ Become(WriteOne([cur |-> Cur, hist |-> hist], method, argument))

\* Maxwell3D::CallMethodFromMacro
CallMethodFromMacro(method, argument) ==
    /\ Len(hist) < MaxSteps
    /\ Become(WriteOne([cur |-> Cur, hist |-> hist], method, argument))

\* Maxwell3D::CallMethodBatchNonInc
CallMethodBatchNonInc(method, arguments) ==
    /\ Len(hist) + (IF method = "i2m.loadInlineData" THEN 1 ELSE Len(arguments)) <= MaxSteps
    /\ Become(BatchNonInc([cur |-> Cur, hist |-> hist], method, arguments))

\* Maxwell3D::FlushEngineState, the executor's flush callback
FlushEngineState ==
    /\ Len(hist) < MaxSteps
    /\ LET r == FlushEngineStateOf(Work(Cur))
       IN Become([cur |-> Snapshot(r),
                  hist |-> Append(hist, Event("flush", "", 0, Cur, r))])

\* ------------------------------------------------------------ the write stream
\* The words a run writes to each method.
ArgumentsOf(method) ==
    CASE method = ShadowRamControlMethod ->
            {MethodTrackWithFilter, MethodPassthrough, MethodReplay}
      [] method = "loadConstantBuffer.data0" -> {5, 6}
      [] method = "loadConstantBuffer.data1" -> {7}
      [] method = LoadConstantBufferOffset -> {8}
      [] method = "begin" -> {0, 2, 3}
      [] method = "end" -> {0}
      [] method = DrawVertexArrayCount -> {3, 4}
      [] method = DrawIndexBufferCount -> {3}
      [] method = "lineWidth" -> {0, 1}
      [] method = "semaphore.info" -> {0}
      [] method = "mme.instructionRamPointer" -> {2}
      [] OTHER -> {1}

\* The methods of the dispatcher's layers: shadow control, batch, deferred draw,
\* direct state, the unconditional side effects and the handlers that write registers.
StreamMethods ==
    {ShadowRamControlMethod, "loadConstantBuffer.data0", "loadConstantBuffer.data1",
     LoadConstantBufferOffset, "begin", "end", DrawVertexArrayCount,
     DrawIndexBufferCount, "clearSurface", "syncpointAction", "lineWidth",
     VertexStreamFormat, "i2m.loadInlineData", BindGroupConstantBuffer,
     "semaphore.info", FirmwareCall4, "mme.instructionRamPointer",
     "mme.instructionRamLoad"}

BatchMethods == {"loadConstantBuffer.data0", "i2m.loadInlineData"}

BatchArguments(method) ==
    {<<a>> : a \in ArgumentsOf(method)}
    \cup {<<a, b>> : a \in ArgumentsOf(method), b \in ArgumentsOf(method)}

Next ==
    \/ \E method \in StreamMethods : \E argument \in ArgumentsOf(method) :
          CallMethod(method, argument)
    \/ \E method \in StreamMethods : \E argument \in ArgumentsOf(method) :
          CallMethodFromMacro(method, argument)
    \/ \E method \in BatchMethods : \E arguments \in BatchArguments(method) :
          CallMethodBatchNonInc(method, arguments)
    \/ FlushEngineState

Spec == Init /\ [][Next]_vars

\* The batched variant of the write stream next to single writes: methods of the
\* batch and draw layers, the macro memory, the syncpoint and the inline-data load.
BatchStreamMethods ==
    {"loadConstantBuffer.data0", LoadConstantBufferOffset, "begin",
     DrawVertexArrayCount, "syncpointAction", "i2m.loadInlineData",
     "mme.instructionRamPointer", "mme.instructionRamLoad"}

BatchStreamNext ==
    \/ \E method \in BatchStreamMethods : \E argument \in ArgumentsOf(method) :
          CallMethod(method, argument)
    \/ \E method \in BatchStreamMethods : \E arguments \in BatchArguments(method) :
          CallMethodBatchNonInc(method, arguments)

BatchStreamSpec == Init /\ [][BatchStreamNext]_vars

\* The macro memories: pointer writes and loads, in every shadow mode.
MacroMethods ==
    {ShadowRamControlMethod, "mme.instructionRamPointer", "mme.instructionRamLoad",
     "mme.startAddressRamPointer", "mme.startAddressRamLoad"}

\* Pointers inside, at the end of and past the memories; two distinct words to load.
MacroArguments(method) ==
    CASE method = ShadowRamControlMethod -> {MethodReplay}
      [] method = "mme.instructionRamPointer" -> {MacroCodeSize - 1, MacroCodeSize}
      [] method = "mme.startAddressRamPointer" ->
            {MacroPositionsSize - 1, MacroPositionsSize + 1}
      [] OTHER -> {1, 2}

MacroNext ==
    \E method \in MacroMethods : \E argument \in MacroArguments(method) :
        CallMethod(method, argument)

MacroSpec == Init /\ [][MacroNext]_vars

\* The draw stream: both draw-count methods, begin and end, a constant-buffer word,
\* the syncpoint, a method unrelated to drawing, the replay mode and the explicit flush.
DrawStreamMethods ==
    {"begin", "end", DrawVertexArrayCount, DrawIndexBufferCount, "lineWidth",
     "syncpointAction", "loadConstantBuffer.data0", ShadowRamControlMethod}

DrawStreamArguments(method) ==
    CASE method = ShadowRamControlMethod -> {MethodReplay}
      [] method = "begin" -> {0, 2, 3}
      [] method = "end" -> {0}
      [] method = DrawVertexArrayCount -> {3, 4}
      [] method = DrawIndexBufferCount -> {3, 4}
      [] method = "syncpointAction" -> {1, 2}
      [] OTHER -> {5}

DrawStreamNext ==
    \/ \E method \in DrawStreamMethods : \E argument \in DrawStreamArguments(method) :
          CallMethod(method, argument)
    \/ FlushEngineState

DrawStreamSpec == Init /\ [][DrawStreamNext]_vars

\* The semaphore: address, payload and info writes, next to a draw that is pending.
SemaphoreMethods ==
    {"semaphore.address", "semaphore.payload", "semaphore.info", DrawVertexArrayCount}

\* Info words: Release and Counter with four words and one word, with reduction, a
\* counter type other than Zero, and the operations that are not supported.
SemaphoreArguments(method) ==
    CASE method = "semaphore.info" -> {0, 1, 2, 3, 4, 6, 8, 18, 22}
      [] method = "semaphore.address" -> {4}
      [] method = "semaphore.payload" -> {7, 9}
      [] OTHER -> {3}

SemaphoreNext ==
    \E method \in SemaphoreMethods : \E argument \in SemaphoreArguments(method) :
        CallMethod(method, argument)

SemaphoreSpec == Init /\ [][SemaphoreNext]_vars

\* MakeActiveStateRegisters: the registers handed to the depth-bounds state, in
\* the order of the initialiser.
MakeActiveStateRegisters(regs) ==
    [lineWidthRegisters |-> <<regs["lineWidth"]>>,
     depthBoundsRegisters |-> <<regs["depthBoundsMin"], regs["depthBoundsMin"]>>]

\* A stream of writes to the depth-bounds registers.
DepthBoundsMethods == {"depthBoundsMin", "depthBoundsMax", "lineWidth"}

DepthBoundsArguments(method) ==
    IF method = "lineWidth" THEN {1} ELSE {1, 2, 3}

DepthBoundsNext ==
    \E method \in DepthBoundsMethods : \E argument \in DepthBoundsArguments(method) :
        CallMethod(method, argument)

DepthBoundsSpec == Init /\ [][DepthBoundsNext]_vars

\* ------------------------------------------------------ the pipeline machine
\* Number of operations on the pipeline state in a run.
MaxUpdates == 2

PCur == [engine |-> engine, packedState |-> packedState, dirty |-> dirtyState,
         view |-> view]

\* The state an operation starts from: nothing updated, flushed, logged or thrown yet.
PWork(c) ==
    [packedState |-> c.packedState, dirty |-> c.dirty, view |-> c.view,
     updates |-> <<>>, flushes |-> <<>>, warn |-> <<>>, thrown |-> "",
     returned |-> <<>>]

PEvent(op, target, argument, r) ==
    [op |-> op, target |-> target, argument |-> argument, pre |-> PCur,
     updates |-> r.updates, flushes |-> r.flushes, warn |-> r.warn,
     thrown |-> r.thrown, returned |-> r.returned]

\* The operation leaves r behind; the register file becomes e.
PBecome(op, target, argument, r, e) ==
    /\ engine' = e
    /\ packedState' = r.packedState
    /\ dirtyState' = r.dirty
    /\ view' = r.view
    /\ phist' = Append(phist, PEvent(op, target, argument, r))
    /\ UNCHANGED <<dispatcherVars, serviceVars>>

\* PipelineState::Flush
Flush ==
    /\ Len(phist) < MaxUpdates
    /\ PBecome("Flush", <<>>, <<>>, PipelineFlush(PWork(PCur), engine), engine)

\* The update step of one translator.
TranslatorUpdate(t) ==
    /\ Len(phist) < MaxUpdates
    /\ PBecome("Update", t, <<>>, Update(PWork(PCur), engine, t), engine)

\* A write of the dispatcher to a register a translator reads.
WriteRegister(key, value) ==
    /\ Len(phist) < MaxUpdates
    /\ PBecome("Write", key, <<value>>, RegisterWrite(PWork(PCur), engine, key, value),
               [engine EXCEPT ![key] = value])

\* PackedPipelineState::SetPolygonMode and SetCullMode, called on their own.
CallSetPolygonMode(mode) ==
    /\ Len(phist) < MaxUpdates
    /\ PBecome("SetPolygonMode", <<>>, <<mode>>, SetPolygonMode(PWork(PCur), mode), engine)

CallSetCullMode(enable, mode) ==
    /\ Len(phist) < MaxUpdates
    /\ PBecome("SetCullMode", <<>>, <<enable, mode>>,
               SetCullMode(PWork(PCur), enable, mode), engine)

\* ------------------------------------------------------ the register inputs
\* The register file e with the fields of rec written to group[index].
With(e, group, index, rec) ==
    [k \in DOMAIN e |-> IF k[1] = group /\ k[2] = index /\ k[3] \in DOMAIN rec
                        THEN rec[k[3]] ELSE e[k]]

\* Values of the enumerated registers: the enumerators and a value that is none.
PolygonModeValues == {"Fill", "Line", "Point", "0x0"}
CullFaceValues == {"Front", "Back", "FrontAndBack", "0x0"}
ThirdDimensionControls == {"ThirdDimensionDefinesArraySize", "ArraySizeIsOne"}

\* Register files with one group written: a colour target, the depth target, the
\* rasterizer or the stencil registers.
ColorTargetInputs ==
    {With(InitialRegisters, "colorTarget", 0,
          [format |-> f, thirdDimensionControl |-> c, thirdDimension |-> d,
           layout |-> l, width |-> 8, height |-> 6, blockHeightLog2 |-> 2,
           blockDepthLog2 |-> 1, arrayPitchLsr2 |-> 3, offset |-> 5]) :
        f \in {Disabled, A8R8G8B8, R5G6B5, A8}, c \in ThirdDimensionControls,
        d \in {1, 2}, l \in {"Pitch", "BlockLinear"}}

DepthTargetInputs ==
    {With(InitialRegisters, "zt", 0,
          [ztFormat |-> f, targetCount |-> n, control |-> c, thirdDimension |-> d,
           width |-> 8, height |-> 6, blockHeightLog2 |-> 2, blockDepthLog2 |-> 1,
           ztArrayPitch |-> 12, ztOffset |-> 5]) :
        f \in {ZF32, Z16, V8Z24}, n \in {0, 1}, c \in ThirdDimensionControls,
        d \in {1, 2}}

RasterizationInputs ==
    {With(InitialRegisters, "rasterization", 0,
          [frontPolygonMode |-> m, backPolygonMode |-> m, oglCullEnable |-> c,
           oglCullFace |-> f]) :
        m \in PolygonModeValues, c \in {0, 1}, f \in CullFaceValues}

StencilInputs ==
    {With(With(With(InitialRegisters, "depthStencil", 0,
                    [stencilTestEnable |-> 1, twoSidedStencilTestEnable |-> t]),
               "stencilOps", 0, [zPass |-> f]),
          "stencilBack", 0, [zPass |-> b]) :
        t \in {0, 1}, f \in {"D3DKeep", "OglReplace"},
        b \in {"D3DKeep", "OglIncr", "0x0"}}

EngineInputs ==
    ColorTargetInputs \cup DepthTargetInputs \cup RasterizationInputs \cup StencilInputs

\* The register writes of a run.
WriteInputs ==
    {<<(<<"colorTarget", 0, "format">>), Disabled>>,
     <<(<<"colorTarget", 0, "format">>), A8R8G8B8>>,
     <<(<<"zt", 0, "targetCount">>), 0>>,
     <<(<<"zt", 0, "targetCount">>), 1>>,
     <<(<<"inputAssembly", 0, "primitiveRestartEnable">>), 1>>,
     <<(<<"depthStencil", 0, "twoSidedStencilTestEnable">>), 1>>}

\* A new pipeline state over any of the register files.
PipelineInit ==
    /\ DispatcherInit
    /\ ServiceInit
    /\ engine \in EngineInputs
    /\ packedState = InitialPackedState
    /\ dirtyState = DirtyTracked
    /\ view = [t \in {ColorRenderTargetName(i) : i \in ColorTargets}
                     \cup {<<"depthRenderTarget", 0>>} |-> NullView]
    /\ phist = <<>>

PipelineNext ==
    \/ Flush
    \/ \E t \in TranslatorSet : TranslatorUpdate(t)
    \/ \E wr \in WriteInputs : WriteRegister(wr[1], wr[2])

PipelineSpec == PipelineInit /\ [][PipelineNext]_vars

\* The packed-state setters called with every value of their arguments.
SetterNext ==
    \/ \E mode \in PolygonModeValues : CallSetPolygonMode(mode)
    \/ \E enable \in {0, 1} : \E mode \in CullFaceValues : CallSetCullMode(enable, mode)

SetterSpec == Init /\ [][SetterNext]_vars

\* PackedPipelineState::SetDepthFunc, called on its own.
CallSetDepthFunc(func) ==
    /\ Len(phist) < MaxUpdates
    /\ PBecome("SetDepthFunc", <<>>, <<func>>, SetDepthFunc(PWork(PCur), func), engine)

\* Both ranges of engine::CompareFunc with the values next to their ends.
CompareFuncValues ==
    ((D3DNever - 1)..(D3DAlways + 2)) \cup ((OglNever - 2)..(OglAlways + 2))

CompareNext == \E func \in CompareFuncValues : CallSetDepthFunc(func)

CompareSpec == Init /\ [][CompareNext]_vars

\* PackedPipelineState::SetStencilOps and SetAttachmentBlendState, called on their
\* own with one field of their argument varying and every other field valid.
CallSetStencilOps(op) ==
    LET ops == [zPass |-> op, fail |-> "D3DKeep", zFail |-> "D3DKeep", func |-> D3DNever]
    IN /\ Len(phist) < MaxUpdates
       /\ PBecome("SetStencilOps", <<>>, <<op>>, SetStencilOps(PWork(PCur), ops, ops),
                  engine)

CallSetAttachmentBlendState(op, coeff) ==
    LET blend == [colorOp |-> op, colorSourceCoeff |-> coeff,
                  colorDestCoeff |-> "D3DZero", alphaOp |-> "D3DAdd",
                  alphaSourceCoeff |-> "D3DOne", alphaDestCoeff |-> "D3DZero"]
    IN /\ Len(phist) < MaxUpdates
       /\ PBecome("SetAttachmentBlendState", <<>>, <<op, coeff>>,
                  SetAttachmentBlendState(PWork(PCur), 0, TRUE, {}, blend), engine)

\* The encodings each conversion lists, and a value it does not list.
StencilOpValues ==
    {"OglZero", "D3DZero", "D3DKeep", "OglKeep", "D3DReplace", "OglReplace",
     "D3DIncrSat", "OglIncrSat", "D3DDecrSat", "OglDecrSat", "D3DInvert", "OglInvert",
     "D3DIncr", "OglIncr", "D3DDecr", "OglDecr", "Unlisted"}

BlendOpValues ==
    {"D3DAdd", "OglFuncAdd", "D3DSubtract", "OglFuncSubtract", "D3DRevSubtract",
     "OglFuncReverseSubtract", "D3DMin", "OglMin", "D3DMax", "OglMax", "Unlisted"}

BlendCoeffValues ==
    {"OglZero", "D3DZero", "OglOne", "D3DOne", "OglSrcColor", "D3DSrcColor",
     "OglOneMinusSrcColor", "D3DInvSrcColor", "OglSrcAlpha", "D3DSrcAlpha",
     "OglOneMinusSrcAlpha", "D3DInvSrcAlpha", "OglDstAlpha", "D3DDstAlpha",
     "OglOneMinusDstAlpha", "D3DInvDstAlpha", "OglDstColor", "D3DDstColor",
     "OglOneMinusDstColor", "D3DInvDstColor", "OglSrcAlphaSaturate",
     "D3DSrcAlphaSaturate", "OglConstantColor", "D3DBlendCoeff",
     "OglOneMinusConstantColor", "D3DInvBlendCoeff", "OglConstantAlpha",
     "OglOneMinusConstantAlpha", "OglSrc1Color", "D3DSrc1Color", "OglInvSrc1Color",
     "D3DInvSrc1Color", "OglSrc1Alpha", "D3DSrc1Alpha", "OglInvSrc1Alpha",
     "D3DInvSrc1Alpha", "Unlisted"}

\* A blend operation with a valid factor, or a blend factor with a valid operation.
\* The number of calls of a format or topology conversion in a run.
MaxConversions == 1

\* A call of ConvertVertexInputAttributeFormat.
CallConvertVertexInputAttributeFormat(componentBitWidths, numericalType) ==
    /\ Len(phist) < MaxConversions
    /\ PBecome("ConvertVertexInputAttributeFormat", <<>>, <<componentBitWidths, numericalType>>,
               ConvertVertexInputAttributeFormat(PWork(PCur), componentBitWidths, numericalType),
               engine)

\* A call of ConvertPrimitiveTopology.
CallConvertPrimitiveTopology(topology) ==
    /\ Len(phist) < MaxConversions
    /\ PBecome("ConvertPrimitiveTopology", <<>>, <<topology>>,
               ConvertPrimitiveTopology(PWork(PCur), topology), engine)

\* engine::VertexAttribute::ComponentBitWidths, and a value without a case
ComponentBitWidthsValues == DOMAIN VertexFormatCases \cup {"Unlisted"}

\* engine::VertexAttribute::NumericalType, and a value without a case
NumericalTypeValues == FormatNormIntScaledFloatTypes \cup {"Unlisted"}

\* engine::DrawTopology, and a value without a case
DrawTopologyValues == DOMAIN PrimitiveTopologyCases \cup {"Unlisted"}

FormatNext ==
    \/ \E componentBitWidths \in ComponentBitWidthsValues, numericalType \in NumericalTypeValues :
           CallConvertVertexInputAttributeFormat(componentBitWidths, numericalType)
    \/ \E topology \in DrawTopologyValues : CallConvertPrimitiveTopology(topology)

FormatSpec == Init /\ [][FormatNext]_vars

ConversionNext ==
    \/ \E op \in StencilOpValues : CallSetStencilOps(op)
    \/ \E op \in BlendOpValues : CallSetAttachmentBlendState(op, "D3DOne")
    \/ \E coeff \in BlendCoeffValues : CallSetAttachmentBlendState("D3DAdd", coeff)

ConversionSpec == Init /\ [][ConversionNext]_vars

\* Number of operations on the render-target translators in a run.
MaxTargetOps == 3

RenderTargetTranslators ==
    {ColorRenderTargetName(i) : i \in ColorTargets} \cup {<<"depthRenderTarget", 0>>}

\* The update step of a render-target translator, as GetColorRenderTargetForClear and
\* GetDepthRenderTargetForClear run it.
RenderTargetUpdate(t) ==
    /\ Len(phist) < MaxTargetOps
    /\ PBecome("Update", t, <<>>, Update(PWork(PCur), engine, t), engine)

\* A write of the dispatcher to a render-target register.
RenderTargetWrite(key, value) ==
    /\ Len(phist) < MaxTargetOps
    /\ PBecome("Write", key, <<value>>, RegisterWrite(PWork(PCur), engine, key, value),
               [engine EXCEPT ![key] = value])

RenderTargetWrites == {wr \in WriteInputs : wr[1][1] \in {"colorTarget", "zt"}}

RenderTargetInit ==
    /\ PipelineInit
    /\ engine \in ColorTargetInputs \cup DepthTargetInputs

RenderTargetNext ==
    \/ \E t \in RenderTargetTranslators : RenderTargetUpdate(t)
    \/ \E wr \in RenderTargetWrites : RenderTargetWrite(wr[1], wr[2])

RenderTargetSpec == RenderTargetInit /\ [][RenderTargetNext]_vars

\* Render targets that start at layer 0, 1 or 2, with a supported or an
\* unsupported format.
LayerInputs ==
    {With(InitialRegisters, "colorTarget", 0,
          [format |-> f, layerOffset |-> o, thirdDimensionControl |-> c,
           thirdDimension |-> d, layout |-> "BlockLinear", width |-> 8, height |-> 6,
           blockHeightLog2 |-> 2, blockDepthLog2 |-> 1, arrayPitchLsr2 |-> 3,
           offset |-> 5]) :
        f \in {A8R8G8B8, A8}, o \in {0, 1, 2}, c \in ThirdDimensionControls,
        d \in {1, 2}}
    \cup
    {With(InitialRegisters, "zt", 0,
          [ztFormat |-> f, targetCount |-> 1, layerOffset |-> o, control |-> c,
           thirdDimension |-> d, width |-> 8, height |-> 6, blockHeightLog2 |-> 2,
           blockDepthLog2 |-> 1, ztArrayPitch |-> 12, ztOffset |-> 5]) :
        f \in {ZF32, V8Z24}, o \in {0, 1, 2}, c \in ThirdDimensionControls,
        d \in {1, 2}}

\* Writes of a supported and of an unsupported format.
LayerWrites ==
    {<<(<<"colorTarget", 0, "format">>), A8>>,
     <<(<<"colorTarget", 0, "format">>), R5G6B5>>,
     <<(<<"zt", 0, "ztFormat">>), V8Z24>>,
     <<(<<"zt", 0, "ztFormat">>), Z16>>}

LayerInit ==
    /\ DispatcherInit
    /\ ServiceInit
    /\ engine \in LayerInputs
    /\ packedState = InitialPackedState
    /\ dirtyState = DirtyTracked
    /\ view = [t \in RenderTargetTranslators |-> NullView]
    /\ phist = <<>>

LayerNext ==
    \/ \E t \in RenderTargetTranslators : RenderTargetUpdate(t)
    \/ \E wr \in LayerWrites : RenderTargetWrite(wr[1], wr[2])

LayerSpec == LayerInit /\ [][LayerNext]_vars

\* ------------------------------------------------------- reading the run
\* The state event i left behind.
Post(i) == IF i < Len(hist) THEN hist[i + 1].pre ELSE Cur

IsWrite(i) == hist[i].op = "write"

ModeAt(i) == hist[i].pre.shadowRegisters[ShadowRamControlMethod]

\* The value write i commits: the incoming argument, or in replay mode the shadow copy's.
Adjusted(i) ==
    IF hist[i].method # ShadowRamControlMethod /\ ModeAt(i) = MethodReplay
    THEN hist[i].pre.shadowRegisters[hist[i].method]
    ELSE hist[i].argument

\* The calls of events i..j, in order.
RECURSIVE CallsBetween(_, _)
CallsBetween(i, j) == IF i > j THEN <<>> ELSE hist[i].calls \o CallsBetween(i + 1, j)

CallsNamed(calls, fn) == SelectSeq(calls, LAMBDA c : c.fn = fn)

DrawMethods == {"begin", "end", DrawVertexArrayCount, DrawIndexBufferCount}

\* Events i..j-1 are data writes that open a batch, event j is a write of another method.
DataRun(i, j) ==
    /\ i < j
    /\ ~hist[i].pre.batchLoadConstantBuffer.active
    /\ (\A k \in i..(j - 1) : IsWrite(k) /\ hist[k].method \in LoadConstantBufferData)
    /\ IsWrite(j)
    /\ hist[j].method \notin LoadConstantBufferData

\* Event i is a draw-count write, i+1..j-1 are begin writes, j is a write unrelated to drawing.
DrawRun(i, j) ==
    /\ i < j
    /\ ~hist[i].pre.deferredDraw.pending
    /\ ~hist[i].pre.batchLoadConstantBuffer.active
    /\ IsWrite(i)
    /\ hist[i].method \in {DrawVertexArrayCount, DrawIndexBufferCount}
    /\ (\A k \in (i + 1)..(j - 1) : IsWrite(k) /\ hist[k].method = "begin")
    /\ IsWrite(j)
    /\ hist[j].method \notin DrawMethods

\* ------------------------------------------------------------------ claims
\* C1 as stated: N data writes from a state with no batch, then one write of any
\* other method, give exactly one LoadConstantBuffer call with the N written words
\* in order and the offset register's value at the first write.
C1_AsStated ==
    \A i \in 1..Len(hist) : \A j \in 1..Len(hist) :
        DataRun(i, j) =>
            LET loads == CallsNamed(CallsBetween(i, j), "LoadConstantBuffer")
            IN /\ Len(loads) = 1
               /\ loads[1].args = <<[k \in 1..(j - i) |-> hist[i + k - 1].argument],
                                    hist[i].pre.registers[LoadConstantBufferOffset]>>

\* C1 amended: when the closing write is not to the shadow-RAM control register,
\* exactly one LoadConstantBuffer call is made; it carries the N committed words (the
\* written words, in replay mode the shadow copy's) in write order and the offset
\* register's value at the first write.  A closing control write leaves the batch open.
C1_BatchCoalescing ==
    \A i \in 1..Len(hist) : \A j \in 1..Len(hist) :
        DataRun(i, j) =>
            LET loads == CallsNamed(CallsBetween(i, j), "LoadConstantBuffer")
            IN IF hist[j].method = ShadowRamControlMethod
               THEN Len(loads) = 0 /\ Post(j).batchLoadConstantBuffer.active
               ELSE /\ Len(loads) = 1
                    /\ loads[1].args = <<[k \in 1..(j - i) |-> Adjusted(i + k - 1)],
                                         hist[i].pre.registers[LoadConstantBufferOffset]>>
                    /\ hist[j].calls # <<>> /\ hist[j].calls[1] = loads[1]

\* Two data writes of different words after a changed offset, closed by another method.
C1_Witness ==
    /\ Len(hist) = 3
    /\ DataRun(1, 3)
    /\ hist[1].argument # hist[2].argument
    /\ hist[3].method # ShadowRamControlMethod
    /\ CallsNamed(hist[3].calls, "LoadConstantBuffer") # <<>>
    /\ CallsNamed(hist[3].calls, "LoadConstantBuffer")[1].args[1]
           = <<hist[1].argument, hist[2].argument>>

\* C2 as stated: a draw-count write, K begin writes with the Subsequent marker and
\* one write unrelated to drawing give exactly one Draw call with instanceCount K+1.
C2_AsStated ==
    \A i \in 1..Len(hist) : \A j \in 1..Len(hist) :
        (DrawRun(i, j)
         /\ (\A k \in (i + 1)..(j - 1) : BeginInstanceIdSubsequent(hist[k].argument))) =>
            LET draws == CallsNamed(CallsBetween(i, j), "Draw")
            IN Len(draws) = 1 /\ draws[1].args[5] = (j - i - 1) + 1

\* C2 amended: with K begin writes whose committed value carries the Subsequent
\* marker and a closing write that is not to the shadow-RAM control register, exactly
\* one Draw call is made and its instanceCount is K plus the instance count held when
\* the draw-count write arrived (1 after construction, a flush or a begin(First)).
C2_InstancedDrawCoalescing ==
    \A i \in 1..Len(hist) : \A j \in 1..Len(hist) :
        (DrawRun(i, j)
         /\ (\A k \in (i + 1)..(j - 1) : BeginInstanceIdSubsequent(Adjusted(k)))
         /\ hist[j].method # ShadowRamControlMethod) =>
            LET draws == CallsNamed(CallsBetween(i, j), "Draw")
            IN /\ Len(draws) = 1
               /\ draws[1].args[5] =
                      (hist[i].pre.deferredDraw.instanceCount + (j - i - 1)) % WordModulus
               /\ hist[i].pre.deferredDraw.instanceCount = 1 => draws[1].args[5] = j - i

\* A draw-count write, one begin(Subsequent) and an unrelated write: instanceCount 2.
C2_Witness ==
    /\ Len(hist) = 3
    /\ DrawRun(1, 3)
    /\ BeginInstanceIdSubsequent(Adjusted(2))
    /\ hist[3].method # ShadowRamControlMethod
    /\ CallsNamed(hist[3].calls, "Draw") # <<>>
    /\ CallsNamed(hist[3].calls, "Draw")[1].args[5] = 2

\* C3: in replay mode a write to a method other than the control register leaves
\* registers[m] equal to the shadow copy's earlier value at m, whatever the argument,
\* and leaves the shadow copy as it was.
C3_ShadowReplay ==
    \A i \in 1..Len(hist) :
        (IsWrite(i) /\ hist[i].method # ShadowRamControlMethod /\ ModeAt(i) = MethodReplay) =>
            /\ Post(i).registers[hist[i].method] = hist[i].pre.shadowRegisters[hist[i].method]
            /\ Post(i).shadowRegisters = hist[i].pre.shadowRegisters

\* A replayed write whose argument differs from the tracked value.
C3_Witness ==
    \E i \in 1..Len(hist) :
        /\ IsWrite(i) /\ hist[i].method # ShadowRamControlMethod /\ ModeAt(i) = MethodReplay
        /\ hist[i].argument # hist[i].pre.shadowRegisters[hist[i].method]
        /\ hist[i].pre.shadowRegisters[hist[i].method] # 0

\* Write i+1 repeats write i: same method, same argument.
Repeated(i) ==
    /\ i + 1 <= Len(hist)
    /\ IsWrite(i) /\ IsWrite(i + 1)
    /\ hist[i + 1].method = hist[i].method
    /\ hist[i + 1].argument = hist[i].argument

DirectStateCalls ==
    {"directState.vertexInput.SetStride", "directState.vertexInput.SetDivisor",
     "directState.vertexInput.SetInputRate", "directState.vertexInput.SetAttribute",
     "directState.inputAssembly.SetPrimitiveRestart", "directState.tessellation.SetParameters",
     "directState.tessellation.SetPatchControlPoints"}

\* The calls made for a changed value or by an implicit flush.
ChangeCalls == DirectStateCalls \cup {"Draw", "LoadConstantBuffer"}

Signature(calls) == [n \in 1..Len(calls) |-> <<calls[n].fn, calls[n].args>>]

\* C4 as stated: the second of two equal writes marks nothing dirty and makes no
\* downstream call at all.
C4_AsStated ==
    \A i \in 1..Len(hist) :
        Repeated(i) => hist[i + 1].dirty = {} /\ hist[i + 1].calls = <<>>

\* C4 amended: the second of two equal writes marks nothing dirty and makes no Draw,
\* LoadConstantBuffer or direct-state call; the calls of the unconditional switch
\* (Clear, BindConstantBuffer, Submit and syncpoint increment, semaphore write, DMA
\* launch, inline data) are made again, exactly as for the first write.
C4_RedundantWrite ==
    \A i \in 1..Len(hist) :
        Repeated(i) =>
            /\ hist[i + 1].dirty = {}
            /\ \A n \in 1..Len(hist[i + 1].calls) : hist[i + 1].calls[n].fn \notin ChangeCalls
            /\ Signature(hist[i + 1].calls) =
                   Signature(SelectSeq(hist[i].calls, LAMBDA c : c.fn \notin ChangeCalls))

\* A changed write that marked its address dirty and updated direct state, repeated.
C4_Witness ==
    \E i \in 1..Len(hist) :
        /\ Repeated(i)
        /\ hist[i].dirty # {}
        /\ \E n \in 1..Len(hist[i].calls) : hist[i].calls[n].fn \in DirectStateCalls

\* C5: after FlushEngineState no draw is pending and no batch is active; a pending draw
\* gave exactly one Draw call and an active batch exactly one LoadConstantBuffer call
\* with all accumulated words; a second flush right after makes no call.
C5_ExplicitFlush ==
    \A i \in 1..Len(hist) :
        hist[i].op = "flush" =>
            LET pre == hist[i].pre
                draws == CallsNamed(hist[i].calls, "Draw")
                loads == CallsNamed(hist[i].calls, "LoadConstantBuffer")
            IN /\ ~Post(i).deferredDraw.pending
               /\ ~Post(i).batchLoadConstantBuffer.active
               /\ Post(i).batchLoadConstantBuffer.buffer = <<>>
               /\ Len(draws) = (IF pre.deferredDraw.pending THEN 1 ELSE 0)
               /\ Len(loads) = (IF pre.batchLoadConstantBuffer.active THEN 1 ELSE 0)
               /\ Len(hist[i].calls) = Len(draws) + Len(loads)
               /\ pre.batchLoadConstantBuffer.active =>
                      loads[1].args = <<pre.batchLoadConstantBuffer.buffer,
                                        pre.batchLoadConstantBuffer.startOffset>>
               /\ (i + 1 <= Len(hist) /\ hist[i + 1].op = "flush") => hist[i + 1].calls = <<>>

\* An explicit flush of a batch of two words.
C5_Witness ==
    \E i \in 1..Len(hist) :
        /\ hist[i].op = "flush"
        /\ hist[i].pre.batchLoadConstantBuffer.active
        /\ Len(hist[i].pre.batchLoadConstantBuffer.buffer) = 2
        /\ CallsNamed(hist[i].calls, "LoadConstantBuffer") # <<>>

SideEffectCalls ==
    {"Draw", "Clear", "i2m.LoadInlineData", "i2m.LaunchDma", "executor.Submit",
     "syncpoint.Increment", "gmmu.Write", "gmmu.WriteTimestamp"}

\* C6 as stated: when an event makes a side-effect call, the draw that was pending and
\* the batch that was active when the event began have been emitted before that call.
C6_AsStated ==
    \A i \in 1..Len(hist) :
        \A n \in 1..Len(hist[i].calls) :
            hist[i].calls[n].fn \in SideEffectCalls =>
                /\ hist[i].pre.deferredDraw.pending =>
                       \E b \in 1..n : hist[i].calls[b].fn = "Draw"
                /\ hist[i].pre.batchLoadConstantBuffer.active =>
                       \E b \in 1..(n - 1) : hist[i].calls[b].fn = "LoadConstantBuffer"

\* Event i is a write absorbed by the batch layer or by the deferred-draw layer.
Absorbed(i) ==
    \/ /\ hist[i].pre.batchLoadConstantBuffer.active
       /\ hist[i].method \in LoadConstantBufferData
    \/ /\ ~hist[i].pre.batchLoadConstantBuffer.active
       /\ hist[i].pre.deferredDraw.pending
       /\ \/ hist[i].method \in {"end", DrawVertexArrayCount, DrawIndexBufferCount}
          \/ hist[i].method = "begin" /\ BeginInstanceIdSubsequent(Adjusted(i))

Changed(i) == Adjusted(i) # hist[i].pre.registers[hist[i].method]

\* C7 as stated: MarkDirty(m) is called for every write whose adjusted value differs
\* from the stored one, in every dispatcher state, and for no write whose value is equal.
C7_AsStated ==
    \A i \in 1..Len(hist) :
        IsWrite(i) =>
            /\ Changed(i) => hist[i].method \in hist[i].dirty
            /\ ~Changed(i) => hist[i].dirty = {}

\* C7 amended: MarkDirty(m), and only that, is called for a write whose adjusted value
\* differs from the stored one unless the write is to the shadow-RAM control register,
\* is a data write absorbed by an active batch, or is a begin(Subsequent), end or
\* draw-count write absorbed by a pending draw; MarkDirty is called for no other write.
C7_DirtyMarking ==
    \A i \in 1..Len(hist) :
        IsWrite(i) =>
            hist[i].dirty =
                (IF Changed(i) /\ hist[i].method # ShadowRamControlMethod /\ ~Absorbed(i)
                 THEN {hist[i].method}
                 ELSE {})

\* A changed write that closes a batch marks its address; a changed absorbed one does not.
C7_Witness ==
    /\ \E i \in 1..Len(hist) :
          /\ IsWrite(i) /\ Changed(i) /\ hist[i].pre.batchLoadConstantBuffer.active
          /\ hist[i].dirty = {hist[i].method}
    /\ \E i \in 1..Len(hist) :
          IsWrite(i) /\ Changed(i) /\ Absorbed(i) /\ hist[i].dirty = {}

\* C8 as stated: the LoadConstantBuffer or Draw call of an implicit flush is made while
\* the register file still holds the values from before the triggering write.
C8_AsStated ==
    \A i \in 1..Len(hist) :
        IsWrite(i) =>
            \A n \in 1..Len(hist[i].calls) :
                hist[i].calls[n].fn \in {"Draw", "LoadConstantBuffer"} =>
                    hist[i].calls[n].regs = hist[i].pre.registers

\* C9: in a track mode the shadow copy at m holds the argument after any write (m, a),
\* also when the batch layer or the deferred-draw layer absorbs the write.
C9_ShadowTrack ==
    \A i \in 1..Len(hist) :
        (IsWrite(i) /\ ModeAt(i) \in {MethodTrack, MethodTrackWithFilter}) =>
            Post(i).shadowRegisters[hist[i].method] = hist[i].argument

\* A write in the filtered track mode that the batch layer absorbs.
C9_Witness ==
    \E i \in 1..Len(hist) :
        /\ IsWrite(i) /\ ModeAt(i) = MethodTrackWithFilter /\ Absorbed(i)
        /\ hist[i].argument # hist[i].pre.shadowRegisters[hist[i].method]

\* C10: a write to the shadow-RAM control register stores its argument in the register
\* file and in the shadow copy and changes nothing else: batch, pending draw and macro
\* state stay as they were, nothing is marked dirty and no call is made.
C10_ShadowControlWrite ==
    \A i \in 1..Len(hist) :
        (IsWrite(i) /\ hist[i].method = ShadowRamControlMethod) =>
            /\ Post(i).registers =
                   [hist[i].pre.registers EXCEPT ![ShadowRamControlMethod] = hist[i].argument]
            /\ Post(i).shadowRegisters =
                   [hist[i].pre.shadowRegisters EXCEPT ![ShadowRamControlMethod] = hist[i].argument]
            /\ Post(i).batchLoadConstantBuffer = hist[i].pre.batchLoadConstantBuffer
            /\ Post(i).deferredDraw = hist[i].pre.deferredDraw
            /\ Post(i).macroState = hist[i].pre.macroState
            /\ hist[i].dirty = {} /\ hist[i].calls = <<>> /\ hist[i].thrown = ""

\* A control write changing the mode while a batch of two words is open.
C10_Witness ==
    \E i \in 1..Len(hist) :
        /\ IsWrite(i) /\ hist[i].method = ShadowRamControlMethod
        /\ hist[i].argument # ModeAt(i)
        /\ Len(hist[i].pre.batchLoadConstantBuffer.buffer) = 2
        /\ Post(i).batchLoadConstantBuffer.active

\* The control-register writes before event i, and the mode the latest of them set
\* (the mode of construction when there is none).
ControlWritesBefore(i) ==
    {k \in 1..(i - 1) : IsWrite(k) /\ hist[k].method = ShadowRamControlMethod}

ModeSetBefore(i) ==
    IF ControlWritesBefore(i) = {}
    THEN hist[1].pre.shadowRegisters[ShadowRamControlMethod]
    ELSE hist[CHOOSE k \in ControlWritesBefore(i) :
                  (\A l \in ControlWritesBefore(i) : l <= k)].argument

\* C11: a control-register write commits the incoming argument unchanged, in replay
\* mode too, and every later write to another method is shadowed under the mode the
\* most recent control-register write set: recorded in a track mode, replaced by the
\* shadow copy's value in replay mode, neither in any other mode.
C11_ControlWriteSetsMode ==
    \A i \in 1..Len(hist) :
        IsWrite(i) =>
            IF hist[i].method = ShadowRamControlMethod
            THEN /\ Post(i).registers[ShadowRamControlMethod] = hist[i].argument
                 /\ Post(i).shadowRegisters[ShadowRamControlMethod] = hist[i].argument
            ELSE LET mode == ModeSetBefore(i)
                     m == hist[i].method
                 IN /\ Post(i).shadowRegisters =
                           (IF mode \in {MethodTrack, MethodTrackWithFilter}
                            THEN [hist[i].pre.shadowRegisters EXCEPT ![m] = hist[i].argument]
                            ELSE hist[i].pre.shadowRegisters)
                    /\ Post(i).registers[m] =
                           (IF mode = MethodReplay
                            THEN hist[i].pre.shadowRegisters[m]
                            ELSE hist[i].argument)

\* In replay mode a control write sets another mode, and a later write to another
\* method with a value its shadow copy does not hold runs under that mode.
C11_Witness ==
    \E i \in 1..Len(hist) : \E j \in (i + 1)..Len(hist) :
        /\ IsWrite(i) /\ hist[i].method = ShadowRamControlMethod
        /\ ModeAt(i) = MethodReplay /\ hist[i].argument # MethodReplay
        /\ IsWrite(j) /\ hist[j].method # ShadowRamControlMethod
        /\ ModeSetBefore(j) = hist[i].argument
        /\ hist[j].argument # hist[j].pre.shadowRegisters[hist[j].method]

\* C12: in passthrough mode (neither a track mode nor replay) a write to a method other
\* than the control register leaves the whole shadow copy as it was and commits the
\* incoming argument to the register file.
C12_Passthrough ==
    \A i \in 1..Len(hist) :
        (/\ IsWrite(i) /\ hist[i].method # ShadowRamControlMethod
         /\ ModeAt(i) \notin {MethodTrack, MethodTrackWithFilter, MethodReplay}) =>
            /\ Post(i).shadowRegisters = hist[i].pre.shadowRegisters
            /\ Post(i).registers[hist[i].method] = hist[i].argument

\* A passthrough write whose argument differs from the shadow copy's value and from
\* the stored value.
C12_Witness ==
    \E i \in 1..Len(hist) :
        /\ IsWrite(i) /\ hist[i].method # ShadowRamControlMethod
        /\ ModeAt(i) = MethodPassthrough
        /\ hist[i].argument # hist[i].pre.shadowRegisters[hist[i].method]
        /\ hist[i].argument # hist[i].pre.registers[hist[i].method]

\* The fields of a draw record that Set fills in.
Recorded(d) ==
    <<d.drawTopology, d.indexed, d.drawCount, d.drawFirst, d.drawBaseVertex,
      d.drawBaseInstance>>

\* Event c created a draw record that is still pending before each of c+1..j.
PendingSince(c, j) ==
    /\ c < j
    /\ ~hist[c].pre.deferredDraw.pending /\ Post(c).deferredDraw.pending
    /\ (\A k \in (c + 1)..j : hist[k].pre.deferredDraw.pending)

\* A repeat of the pending draw: a draw-count write or a begin(Subsequent) write.
IsDrawRepeat(j) ==
    /\ IsWrite(j)
    /\ \/ hist[j].method \in {DrawVertexArrayCount, DrawIndexBufferCount}
       \/ hist[j].method = "begin" /\ BeginInstanceIdSubsequent(Adjusted(j))

\* The repeat differs from the pending draw: another count, or another topology
\* while begin methods choose the topology.
IsChangedRepeat(j) ==
    /\ IsDrawRepeat(j)
    /\ IF hist[j].method = "begin"
       THEN /\ BeginOp(Adjusted(j)) # hist[j].pre.deferredDraw.drawTopology
            /\ UseTopologyInBeginMethods(Post(j).registers["primitiveTopologyControl"])
       ELSE Changed(j)

\* C13: while a draw is pending, a draw-count write or a begin(Subsequent) write,
\* changed count or topology included, throws nothing and leaves the recorded
\* topology, indexed flag, count, first, base vertex and base instance as they were
\* when the record was created; the Draw emitted later carries exactly these.
C13_PendingDrawKeepsRecord ==
    \A c \in 1..Len(hist) : \A j \in (c + 1)..Len(hist) :
        PendingSince(c, j) =>
            /\ IsDrawRepeat(j) =>
                  /\ hist[j].thrown = ""
                  /\ Post(j).deferredDraw.pending
                  /\ Recorded(Post(j).deferredDraw) = Recorded(Post(c).deferredDraw)
                  /\ CallsNamed(hist[j].calls, "Draw") = <<>>
                  /\ IsChangedRepeat(j) => hist[j].warn # <<>>
            /\ (\A n \in 1..Len(hist[j].calls) :
                   hist[j].calls[n].fn = "Draw" =>
                       LET a == hist[j].calls[n].args
                       IN <<a[1], a[2], a[3], a[4], a[6], a[7]>> =
                              Recorded(Post(c).deferredDraw))

\* A draw is recorded, a write changes the count while it is pending, and the Draw
\* emitted afterwards carries the first count, not the stored one.
C13_Witness ==
    \E c \in 1..Len(hist) : \E j \in (c + 1)..Len(hist) : \E e \in (j + 1)..Len(hist) :
        /\ PendingSince(c, e)
        /\ IsChangedRepeat(j) /\ hist[j].method = DrawVertexArrayCount
        /\ CallsNamed(hist[e].calls, "Draw") # <<>>
        /\ CallsNamed(hist[e].calls, "Draw")[1].args[3] # hist[e].pre.registers[DrawVertexArrayCount]

\* A begin(Subsequent) write naming another topology than the pending draw's.
C13_TopologyCase ==
    \E c \in 1..Len(hist) : \E j \in (c + 1)..Len(hist) :
        PendingSince(c, j) /\ IsChangedRepeat(j) /\ hist[j].method = "begin"

\* ------------------------------------------------ reading the pipeline run
\* The state operation i left behind.
PPost(i) == IF i < Len(phist) THEN phist[i + 1].pre ELSE PCur

\* Every enumerated register of e holds one of its enumerators, and every format
\* register a format with a mapping (or Disabled).
ValidEnumerations(e) ==
    /\ (\A i \in ColorTargets :
           e[<<"colorTarget", i, "format">>] \in {Disabled, A8R8G8B8, R5G6B5})
    /\ e[<<"zt", 0, "ztFormat">>] \in {ZF32, Z16}
    /\ e[<<"rasterization", 0, "frontPolygonMode">>] \in {"Fill", "Line", "Point"}
    /\ e[<<"rasterization", 0, "backPolygonMode">>] \in {"Fill", "Line", "Point"}
    /\ e[<<"rasterization", 0, "oglCullFace">>] \in {"Front", "Back", "FrontAndBack"}
    /\ ~PackStencilOpsThrows(StencilOpsOf(e, "stencilOps"))
    /\ ~PackStencilOpsThrows(StencilOpsOf(e, "stencilBack"))

\* C14: with every enumeration valid, PipelineState::Flush runs the update step of
\* every leaf translator in order (colour targets, depth target, vertex input, input
\* assembly, tessellation, rasterization, depth-stencil, colour blend, global shader
\* config) and returns normally, leaving no translator dirty.
C14_AsStated ==
    \A i \in 1..Len(phist) :
        (phist[i].op = "Flush" /\ ValidEnumerations(phist[i].pre.engine)) =>
            /\ phist[i].thrown = ""
            /\ phist[i].updates = Translators
            /\ PPost(i).dirty = {}

\* The canonical polygon mode and cull mode of the hardware values.
CanonicalPolygonMode(mode) ==
    CASE mode = "Fill" -> "eFill" [] mode = "Line" -> "eLine" [] mode = "Point" -> "ePoint"

CanonicalCullMode(mode) ==
    CASE mode = "Front" -> {"FRONT"} [] mode = "Back" -> {"BACK"}
      [] mode = "FrontAndBack" -> {"FRONT", "BACK"}

\* C15: SetPolygonMode stores the canonical Fill, Line or Point mode for the hardware
\* modes Fill, Line and Point without throwing, and throws for every other value.
C15_AsStated ==
    \A i \in 1..Len(phist) :
        phist[i].op = "SetPolygonMode" =>
            LET mode == phist[i].argument[1]
            IN IF mode \in {"Fill", "Line", "Point"}
               THEN /\ phist[i].thrown = ""
                    /\ PPost(i).packedState.polygonMode = CanonicalPolygonMode(mode)
               ELSE phist[i].thrown # ""

\* C16: SetCullMode with culling enabled stores front, back or both for the faces
\* Front, Back and FrontAndBack without throwing and throws for any other face; with
\* culling disabled it stores no face for every value and never throws.
C16_AsStated ==
    \A i \in 1..Len(phist) :
        phist[i].op = "SetCullMode" =>
            LET enable == phist[i].argument[1]
                mode == phist[i].argument[2]
            IN IF enable = 0
               THEN phist[i].thrown = "" /\ PPost(i).packedState.cullMode = {}
               ELSE IF mode \in {"Front", "Back", "FrontAndBack"}
                    THEN /\ phist[i].thrown = ""
                         /\ PPost(i).packedState.cullMode = CanonicalCullMode(mode)
                    ELSE phist[i].thrown # ""

\* Operation i ran the flush of translator t to its end.
Flushed(i, t) ==
    /\ \E n \in 1..Len(phist[i].flushes) : phist[i].flushes[n] = t
    /\ phist[i].thrown = ""

\* C17: after DepthStencilState::Flush the packed front-face stencil operations are
\* the conversion of the stencilOps registers, and the packed back-face operations are
\* the conversion of the stencilBack registers when the two-sided stencil test is
\* enabled and of the stencilOps registers when it is not.
C17_AsStated ==
    \A i \in 1..Len(phist) :
        LET e == phist[i].pre.engine
            back == IF e[<<"depthStencil", 0, "twoSidedStencilTestEnable">>] # 0
                    THEN StencilOpsOf(e, "stencilBack")
                    ELSE StencilOpsOf(e, "stencilOps")
        IN (Flushed(i, <<"depthStencil", 0>>) /\ ~PackStencilOpsThrows(back)) =>
              /\ PPost(i).packedState.stencilFront =
                     PackStencilOps(StencilOpsOf(e, "stencilOps"))
              /\ PPost(i).packedState.stencilBack = PackStencilOps(back)

\* Operations i and i+1 are updates of the same translator, nothing between them.
UpdatedTwice(i) ==
    /\ i < Len(phist)
    /\ phist[i].op = "Update" /\ phist[i + 1].op = "Update"
    /\ phist[i].target = phist[i + 1].target

PlainMembers == {<<"inputAssembly", 0>>, <<"tessellation", 0>>, <<"globalShaderConfig", 0>>}

Ran(i, t) == \E n \in 1..Len(phist[i].flushes) : phist[i].flushes[n] = t

\* C19: the flush of a colour target whose format register is Disabled, or of the
\* depth target when the target count is zero, throws nothing whatever the other
\* registers of the group hold and leaves the translator without a view, dropping the
\* one it held; for a colour target the packed format of its slot is Disabled.
C19_DisabledTarget ==
    \A i \in 1..Len(phist) :
        LET e == phist[i].pre.engine
            depth == <<"depthRenderTarget", 0>>
        IN /\ (\A slot \in ColorTargets :
                 (/\ Ran(i, ColorRenderTargetName(slot))
                  /\ e[<<"colorTarget", slot, "format">>] = Disabled) =>
                     /\ phist[i].thrown = ""
                     /\ PPost(i).view[ColorRenderTargetName(slot)] = NullView
                     /\ PPost(i).packedState.colorRenderTargetFormats[slot] = Disabled)
           /\ (Ran(i, depth) /\ e[<<"zt", 0, "targetCount">>] = 0) =>
                 /\ phist[i].thrown = ""
                 /\ PPost(i).view[depth] = NullView

\* A colour target that holds a view and a packed format is disabled and flushed.
C19_Witness ==
    \E i \in 1..Len(phist) :
        /\ Ran(i, ColorRenderTargetName(0))
        /\ phist[i].pre.engine[<<"colorTarget", 0, "format">>] = Disabled
        /\ phist[i].pre.view[ColorRenderTargetName(0)] # NullView
        /\ phist[i].pre.packedState.colorRenderTargetFormats[0] # Disabled

\* The depth target with no target selected and a format without a mapping is flushed.
C19_UnmappedDepthFormat ==
    \E i \in 1..Len(phist) :
        /\ Ran(i, <<"depthRenderTarget", 0>>)
        /\ phist[i].pre.engine[<<"zt", 0, "targetCount">>] = 0
        /\ phist[i].pre.engine[<<"zt", 0, "ztFormat">>] = V8Z24

\* C20: the flush of the depth target with a target selected and a supported format
\* asks for a view of dimensions (ztSize.width, ztSize.height, 1), block tiling with
\* the block height and depth of ztBlockSize, one layer under ArraySizeIsOne and
\* ztSize.thirdDimension layers under ThirdDimensionDefinesArraySize, mapped to the
\* ranges TranslateRange gives for ztOffset and the size of that texture.
C20_DepthTargetView ==
    \A i \in 1..Len(phist) :
        LET e == phist[i].pre.engine
            depth == <<"depthRenderTarget", 0>>
            v == PPost(i).view[depth]
        IN (/\ Ran(i, depth)
            /\ e[<<"zt", 0, "targetCount">>] # 0
            /\ e[<<"zt", 0, "ztFormat">>] \in {ZF32, Z16}) =>
               /\ phist[i].thrown = ""
               /\ Len(v) = 1
               /\ v[1].dimensions = <<e[<<"zt", 0, "width">>], e[<<"zt", 0, "height">>], 1>>
               /\ v[1].tileConfig =
                      [mode |-> "Block",
                       blockHeight |-> 2 ^ e[<<"zt", 0, "blockHeightLog2">>],
                       blockDepth |-> 2 ^ e[<<"zt", 0, "blockDepthLog2">>]]
               /\ v[1].layerCount =
                      (IF e[<<"zt", 0, "control">>] = "ArraySizeIsOne"
                       THEN 1 ELSE e[<<"zt", 0, "thirdDimension">>])
               /\ v[1].mappings = TranslateRange(e[<<"zt", 0, "ztOffset">>], GetSize(v[1]))

\* A depth target of third dimension 2 under ArraySizeIsOne gets a view.
C20_Witness ==
    \E i \in 1..Len(phist) :
        /\ Ran(i, <<"depthRenderTarget", 0>>)
        /\ phist[i].pre.engine[<<"zt", 0, "targetCount">>] # 0
        /\ phist[i].pre.engine[<<"zt", 0, "control">>] = "ArraySizeIsOne"
        /\ phist[i].pre.engine[<<"zt", 0, "thirdDimension">>] > 1
        /\ PPost(i).view[<<"depthRenderTarget", 0>>] # NullView

\* ---------------------------------------------------------------- C21
\* The position of a comparison function in its range, D3D or OGL.
CompareIndex(func) == IF func >= OglNever THEN func - OglNever ELSE func - D3DNever

InCompareRange(func) ==
    \/ (func >= D3DNever /\ func <= D3DAlways)
    \/ (func >= OglNever /\ func <= OglAlways)

\* vk::CompareOp, eNever to eAlways.
CompareOps == 0..(D3DAlways - D3DNever)

\* C21: ConvertCompareFunc returns a defined comparison for every value of the D3D
\* range and of the OGL range, the same one for the D3D and the OGL encoding of the
\* same comparison, and raises the error for every value outside both ranges.
C21_CompareFuncConversion ==
    /\ (\A i \in 1..Len(phist) :
            phist[i].op = "SetDepthFunc" =>
                LET func == phist[i].argument[1]
                IN IF InCompareRange(func)
                   THEN /\ phist[i].thrown = ""
                        /\ PPost(i).packedState.depthFunc \in CompareOps
                        /\ PPost(i).packedState.depthFunc = CompareIndex(func)
                   ELSE /\ phist[i].thrown # ""
                        /\ PPost(i).packedState = phist[i].pre.packedState)
    /\ (\A i, j \in 1..Len(phist) :
            (/\ phist[i].op = "SetDepthFunc" /\ phist[j].op = "SetDepthFunc"
             /\ InCompareRange(phist[i].argument[1])
             /\ InCompareRange(phist[j].argument[1])
             /\ CompareIndex(phist[i].argument[1]) = CompareIndex(phist[j].argument[1]))
            => PPost(i).packedState.depthFunc = PPost(j).packedState.depthFunc)

\* A run that converted the D3D and the OGL encoding of one comparison other than
\* the first, and a value between the ranges.
C21_Witness ==
    /\ Len(phist) = 2
    /\ phist[1].op = "SetDepthFunc" /\ phist[2].op = "SetDepthFunc"
    /\ phist[1].argument[1] = D3DAlways
    /\ phist[2].argument[1] = OglAlways
    /\ phist[1].thrown = "" /\ phist[2].thrown = ""
    /\ packedState.depthFunc = D3DAlways - D3DNever

\* A value strictly between the ranges was rejected.
C21_BetweenRanges ==
    \E i \in 1..Len(phist) :
        /\ phist[i].op = "SetDepthFunc"
        /\ phist[i].argument[1] > D3DAlways /\ phist[i].argument[1] < OglNever
        /\ phist[i].thrown # ""
\* ---------------------------------------------------------------- C22
\* CallMethod(method, arguments[1]), ..., CallMethod(method, arguments[n]) issued in
\* order on the run st; a call that throws ends the sequence.
RECURSIVE CallsInOrder(_, _, _, _)
CallsInOrder(st, method, arguments, n) ==
    IF n = 0
    THEN st
    ELSE LET before == CallsInOrder(st, method, arguments, n - 1)
         IN IF Len(before.hist) > Len(st.hist) /\ before.hist[Len(before.hist)].thrown # ""
            THEN before
            ELSE WriteOne(before, method, arguments[n])

\* C22: for every method but the inline-data load, CallMethodBatchNonInc leaves the
\* dispatcher in the same state with the same downstream calls as the CallMethod
\* calls on the words in order; for the inline-data load it makes exactly one
\* LoadInlineData call carrying all the words and no per-word call.
C22_BatchNonInc ==
    LET st == [cur |-> Cur, hist |-> hist]
    IN /\ (\A method \in BatchStreamMethods \ {"i2m.loadInlineData"} :
              \A arguments \in BatchArguments(method) :
                 BatchNonInc(st, method, arguments)
                     = CallsInOrder(st, method, arguments, Len(arguments)))
       /\ (\A arguments \in BatchArguments("i2m.loadInlineData") :
              LET after == BatchNonInc(st, "i2m.loadInlineData", arguments)
              IN /\ Len(after.hist) = Len(hist) + 1
                 /\ after.cur = Cur
                 /\ after.hist[Len(after.hist)].calls
                        = <<[fn |-> "i2m.LoadInlineData", args |-> <<arguments>>,
                             regs |-> registers]>>)
       /\ (\A i \in 1..Len(hist) :
              hist[i].op = "inline" =>
                 /\ Len(hist[i].calls) = 1
                 /\ hist[i].calls[1].fn = "i2m.LoadInlineData"
                 /\ Post(i) = hist[i].pre)

\* A run with a two-word inline-data batch and a two-word constant-buffer batch.
C22_Witness ==
    /\ Len(hist) = 3
    /\ hist[1].op = "inline"
    /\ Len(hist[1].calls[1].args[1]) = 2
    /\ hist[2].method = "loadConstantBuffer.data0" /\ hist[2].argument = 5
    /\ hist[3].method = "loadConstantBuffer.data0" /\ hist[3].argument = 6
    /\ batchLoadConstantBuffer.buffer = <<5, 6>>
\* ---------------------------------------------------------------- C23
LoadsOf(method) == {i \in 1..Len(hist) : IsWrite(i) /\ hist[i].method = method}

\* C23: an instruction-RAM load with the pointer p below the capacity stores the word
\* at index p and leaves the pointer at (p + 1) mod capacity, below the capacity; with
\* p at or above the capacity it raises "Macro memory is full!" and writes nothing to
\* the macro memory.
C23_InstructionRamLoad ==
    \A i \in LoadsOf("mme.instructionRamLoad") :
        LET p == hist[i].pre.registers["mme.instructionRamPointer"]
        IN IF p < MacroCodeSize
           THEN /\ hist[i].thrown = ""
                /\ Post(i).macroState.macroCode
                       = [hist[i].pre.macroState.macroCode EXCEPT ![p] = Adjusted(i)]
                /\ Post(i).macroState.macroPositions = hist[i].pre.macroState.macroPositions
                /\ Post(i).registers["mme.instructionRamPointer"] = (p + 1) % MacroCodeSize
                /\ Post(i).registers["mme.instructionRamPointer"] < MacroCodeSize
           ELSE /\ hist[i].thrown = "Macro memory is full!"
                /\ Post(i).macroState = hist[i].pre.macroState

\* A load at the last index wrapped the pointer to 0, and a load past the end failed.
C23_Witness ==
    /\ Len(hist) = 3
    /\ hist[1].method = "mme.instructionRamPointer"
    /\ hist[1].argument = MacroCodeSize - 1
    /\ hist[2].method = "mme.instructionRamLoad" /\ hist[2].thrown = ""
    /\ hist[3].pre.registers["mme.instructionRamPointer"] = 0
    /\ hist[3].pre.macroState.macroCode[MacroCodeSize - 1] = hist[2].argument
    /\ hist[2].argument # 0
    /\ hist[3].method = "mme.instructionRamLoad"

C23_FullCase ==
    \E i \in LoadsOf("mme.instructionRamLoad") :
        /\ hist[i].pre.registers["mme.instructionRamPointer"] >= MacroCodeSize
        /\ hist[i].thrown # ""

\* ---------------------------------------------------------------- C24
\* C24: a start-address load with the pointer p below the table size stores the value
\* at index p and increments the pointer by one without wrapping; with the pointer at
\* (or past) the table size every load raises "Maximum amount of macros reached!" and
\* leaves the macro-position table unchanged.
C24_StartAddressRamLoad ==
    \A i \in LoadsOf("mme.startAddressRamLoad") :
        LET p == hist[i].pre.registers["mme.startAddressRamPointer"]
        IN IF p < MacroPositionsSize
           THEN /\ hist[i].thrown = ""
                /\ Post(i).macroState.macroPositions
                       = [hist[i].pre.macroState.macroPositions EXCEPT ![p] = Adjusted(i)]
                /\ Post(i).macroState.macroCode = hist[i].pre.macroState.macroCode
                /\ Post(i).registers["mme.startAddressRamPointer"] = p + 1
           ELSE /\ hist[i].thrown = "Maximum amount of macros reached!"
                /\ Post(i).macroState = hist[i].pre.macroState
                /\ Post(i).registers["mme.startAddressRamPointer"] = p

\* The last entry of the table was loaded and the next load failed with the pointer
\* at the table size.
C24_Witness ==
    /\ Len(hist) = 3
    /\ hist[1].method = "mme.startAddressRamPointer"
    /\ hist[1].argument = MacroPositionsSize - 1
    /\ hist[2].method = "mme.startAddressRamLoad" /\ hist[2].thrown = ""
    /\ hist[3].method = "mme.startAddressRamLoad" /\ hist[3].thrown # ""
    /\ registers["mme.startAddressRamPointer"] = MacroPositionsSize
    /\ macroState.macroPositions[MacroPositionsSize - 1] = hist[2].argument
    /\ hist[2].argument # 0
\* ---------------------------------------------------------------- C25
DrawCallsOf(i) == CallsNamed(hist[i].calls, "Draw")

\* C25: while a draw record is pending the only field that changes is instanceCount,
\* by exactly 1 per begin(Subsequent) write; the flush emits exactly one Draw call,
\* carrying the record, and leaves pending false and instanceCount 1.
C25_DeferredDrawLifetime ==
    \A i \in 1..Len(hist) :
        hist[i].pre.deferredDraw.pending =>
            LET d == hist[i].pre.deferredDraw
                after == Post(i).deferredDraw
            IN IF DrawCallsOf(i) = <<>>
               THEN /\ after.pending
                    /\ Recorded(after) = Recorded(d)
                    /\ after.instanceCount =
                           IF /\ IsWrite(i) /\ hist[i].method = "begin"
                              /\ BeginInstanceIdSubsequent(Adjusted(i))
                           THEN d.instanceCount + 1
                           ELSE d.instanceCount
               ELSE /\ Len(DrawCallsOf(i)) = 1
                    /\ DrawCallsOf(i)[1].args =
                           <<d.drawTopology, d.indexed, d.drawCount, d.drawFirst,
                             d.instanceCount, d.drawBaseVertex, d.drawBaseInstance>>
                    /\ ~after.pending
                    /\ after.instanceCount = 1
                    /\ Recorded(after) = Recorded(d)

\* A draw was created, repeated once by begin(Subsequent) and flushed with two instances.
C25_Witness ==
    /\ Len(hist) = 3
    /\ hist[1].method = DrawVertexArrayCount /\ ~hist[1].pre.deferredDraw.pending
    /\ hist[2].method = "begin" /\ BeginInstanceIdSubsequent(hist[2].argument)
    /\ hist[3].pre.deferredDraw.instanceCount = 2
    /\ Len(DrawCallsOf(3)) = 1
    /\ DrawCallsOf(3)[1].args[5] = 2
    /\ ~deferredDraw.pending /\ deferredDraw.instanceCount = 1

\* ---------------------------------------------------------------- C26
OtherDrawCount(method) ==
    IF method = DrawVertexArrayCount THEN DrawIndexBufferCount ELSE DrawVertexArrayCount

\* C26: a write to the other draw-count method while a draw is pending results in a
\* Draw call of its own, so two Draw calls have been emitted after the next explicit
\* flush.
C26_AsStated ==
    \A c \in 1..Len(hist) : \A k \in (c + 2)..Len(hist) :
        (/\ IsWrite(c) /\ hist[c].method \in {DrawVertexArrayCount, DrawIndexBufferCount}
         /\ ~hist[c].pre.deferredDraw.pending /\ Post(c).deferredDraw.pending
         /\ IsWrite(c + 1) /\ hist[c + 1].method = OtherDrawCount(hist[c].method)
         /\ hist[k].op = "flush"
         /\ (\A j \in (c + 1)..(k - 1) : hist[j].op # "flush"))
        => Len(CallsNamed(CallsBetween(c, k), "Draw")) = 2
\* ---------------------------------------------------------------- C27
SyncpointWrites == LoadsOf("syncpointAction")

\* The executor.Submit and syncpoint.Increment calls of event i.
SubmitCallsOf(i) ==
    SelectSeq(hist[i].calls, LAMBDA c : c.fn \in {"executor.Submit", "syncpoint.Increment"})

C27_BatchCase ==
    \E i \in SyncpointWrites :
        /\ hist[i].pre.batchLoadConstantBuffer.active
        /\ hist[i].calls[1].fn = "LoadConstantBuffer"
\* ---------------------------------------------------------------- C28
\* The Submit call and the memory writes of event i.
SemaphoreCallsOf(i) ==
    SelectSeq(hist[i].calls,
              LAMBDA c : c.fn \in {"executor.Submit", "gmmu.Write", "gmmu.WriteTimestamp"})

\* The memory writes of a semaphore result for the info word.
ResultWrites(info, address, payload) ==
    IF SemaphoreOneWord(info)
    THEN <<(<<"gmmu.Write", <<address, payload>> >>)>>
    ELSE << <<"gmmu.WriteTimestamp", <<address + 8>> >>,
            <<"gmmu.Write", <<address, payload>> >> >>

\* C28: with the four-word size the timestamp is written to address + 8 before the
\* payload is written to address, with the one-word size only the payload is written,
\* at address; Release calls Submit before these writes; an unsupported operation or
\* counter type writes no memory and raises no error.
C28_SemaphoreWrites ==
    \A i \in LoadsOf("semaphore.info") :
        LET info == Adjusted(i)
            address == hist[i].pre.registers["semaphore.address"]
            payload == hist[i].pre.registers["semaphore.payload"]
            made == [k \in 1..Len(SemaphoreCallsOf(i)) |->
                        <<SemaphoreCallsOf(i)[k].fn, SemaphoreCallsOf(i)[k].args>>]
        IN /\ hist[i].thrown = ""
           /\ made = CASE SemaphoreOp(info) = "Release" ->
                             <<(<<"executor.Submit", <<>> >>)>>
                                 \o ResultWrites(info, address, payload)
                       [] SemaphoreOp(info) = "Counter" /\ SemaphoreCounterTypeZero(info) ->
                             ResultWrites(info, address, payload)
                       [] OTHER -> <<>>

\* A four-word Release wrote the timestamp and then the payload after Submit.
C28_Witness ==
    /\ Len(hist) = 3
    /\ hist[1].method = "semaphore.address"
    /\ hist[2].method = "semaphore.payload"
    /\ hist[3].method = "semaphore.info" /\ hist[3].argument = 0
    /\ Len(hist[3].calls) = 3
    /\ hist[3].calls[1].fn = "executor.Submit"
    /\ hist[3].calls[2].fn = "gmmu.WriteTimestamp"
    /\ hist[3].calls[2].args = <<registers["semaphore.address"] + 8>>
    /\ hist[3].calls[3].fn = "gmmu.Write"
    /\ hist[3].calls[3].args = <<registers["semaphore.address"], hist[2].argument>>

\* A one-word write, an unsupported operation and an unsupported counter type occurred.
C28_OtherCases ==
    /\ Len(hist) = 3
    /\ SemaphoreOneWord(hist[1].argument) /\ Len(SemaphoreCallsOf(1)) = 1
    /\ hist[2].method = "semaphore.info" /\ SemaphoreOp(hist[2].argument) = "Unsupported"
    /\ hist[3].method = "semaphore.info" /\ SemaphoreOp(hist[3].argument) = "Counter"
    /\ ~SemaphoreCounterTypeZero(hist[3].argument)
    /\ hist[3].calls = <<>>
\* ---------------------------------------------------------------- C29
\* Bytes per block of the colour formats of the runs.
BytesPerBlock(format) == IF format = A8R8G8B8 THEN 4 ELSE 2

\* C29: the flush of an enabled colour target asks for a view with thirdDimension
\* layers and depth 1 under ThirdDimensionDefinesArraySize, and one layer and depth
\* thirdDimension otherwise; with linear tiling and the width divided by the format's
\* bytes per block for the Pitch layout, and block tiling (block height and depth of
\* the memory field) and the register width for any other layout; mapped to the ranges
\* TranslateRange gives for the offset and the size of that texture.
C29_ColorTargetView ==
    \A i \in 1..Len(phist) : \A slot \in ColorTargets :
        LET e == phist[i].pre.engine
            reg(f) == e[<<"colorTarget", slot, f>>]
            v == PPost(i).view[ColorRenderTargetName(slot)]
            array == reg("thirdDimensionControl") = "ThirdDimensionDefinesArraySize"
            depth == IF array THEN 1 ELSE reg("thirdDimension")
        IN (/\ Ran(i, ColorRenderTargetName(slot))
            /\ reg("format") \in {A8R8G8B8, R5G6B5}) =>
               /\ phist[i].thrown = ""
               /\ Len(v) = 1
               /\ v[1].layerCount = (IF array THEN reg("thirdDimension") ELSE 1)
               /\ v[1].dimensions[3] = depth
               /\ (reg("layout") = "Pitch" =>
                      /\ v[1].tileConfig = [mode |-> "Linear"]
                      /\ v[1].dimensions =
                             <<reg("width") \div BytesPerBlock(reg("format")),
                               reg("height"), depth>>)
               /\ (reg("layout") # "Pitch" =>
                      /\ v[1].tileConfig =
                             [mode |-> "Block",
                              blockHeight |-> 2 ^ reg("blockHeightLog2"),
                              blockDepth |-> 2 ^ reg("blockDepthLog2")]
                      /\ v[1].dimensions = <<reg("width"), reg("height"), depth>>)
               /\ v[1].mappings = TranslateRange(reg("offset"), GetSize(v[1]))

\* A Pitch target of third dimension 2 that does not define the array size got a
\* view of width 8 / 4.
C29_Witness ==
    \E i \in 1..Len(phist) :
        LET e == phist[i].pre.engine
            v == PPost(i).view[ColorRenderTargetName(0)]
        IN /\ Ran(i, ColorRenderTargetName(0))
           /\ e[<<"colorTarget", 0, "format">>] = A8R8G8B8
           /\ e[<<"colorTarget", 0, "layout">>] = "Pitch"
           /\ e[<<"colorTarget", 0, "thirdDimensionControl">>] = "ArraySizeIsOne"
           /\ e[<<"colorTarget", 0, "thirdDimension">>] > 1
           /\ v # NullView
           /\ v[1].dimensions[1] * 4 = e[<<"colorTarget", 0, "width">>]
           /\ v[1].dimensions[3] > 1

\* A block-linear target whose third dimension defines the array size got a view.
C29_BlockCase ==
    \E i \in 1..Len(phist) :
        LET e == phist[i].pre.engine
            v == PPost(i).view[ColorRenderTargetName(0)]
        IN /\ Ran(i, ColorRenderTargetName(0))
           /\ e[<<"colorTarget", 0, "format">>] = R5G6B5
           /\ e[<<"colorTarget", 0, "layout">>] = "BlockLinear"
           /\ e[<<"colorTarget", 0, "thirdDimensionControl">>]
                  = "ThirdDimensionDefinesArraySize"
           /\ v # NullView
           /\ v[1].layerCount > 1
\* ---------------------------------------------------------------- C30
\* The packed state p with the format field of render target t taken from q.
WithFormatOf(p, q, t) ==
    IF t[1] = "colorRenderTarget"
    THEN [p EXCEPT !.colorRenderTargetFormats[t[2]] = q.colorRenderTargetFormats[t[2]]]
    ELSE [p EXCEPT !.depthRenderTargetFormat = q.depthRenderTargetFormat]

\* C30: GetColorRenderTargetForClear(i) and GetDepthRenderTargetForClear update one
\* translator only: they change at most the packed format field of that target and
\* that translator's view, consume only that translator's dirty state, and leave every
\* other translator's dirty state, view and packed fragment unchanged.
C30_ClearAccessorFrame ==
    \A i \in 1..Len(phist) :
        (phist[i].op = "Update" /\ phist[i].target \in RenderTargetTranslators) =>
            LET t == phist[i].target
                pre == phist[i].pre
                post == PPost(i)
            IN /\ post.dirty = pre.dirty \ {t}
               /\ (\A u \in DOMAIN pre.view : u # t => post.view[u] = pre.view[u])
               /\ WithFormatOf(post.packedState, pre.packedState, t) = pre.packedState
               /\ post.engine = pre.engine
               /\ phist[i].updates = <<t>>
               /\ (\A n \in 1..Len(phist[i].flushes) : phist[i].flushes[n] = t)

\* The accessor of colour target 0 stored its format and got a view while colour
\* target 1 and the depth target stayed dirty and without a view.
C30_Witness ==
    \E i \in 1..Len(phist) :
        /\ phist[i].op = "Update" /\ phist[i].target = ColorRenderTargetName(0)
        /\ PPost(i).packedState.colorRenderTargetFormats[0]
               # phist[i].pre.packedState.colorRenderTargetFormats[0]
        /\ PPost(i).view[ColorRenderTargetName(0)] # NullView
        /\ ColorRenderTargetName(1) \in PPost(i).dirty
        /\ <<"depthRenderTarget", 0>> \in PPost(i).dirty
        /\ ColorRenderTargetName(0) \notin PPost(i).dirty

\* The accessor of the depth target stored its format and got a view.
C30_DepthCase ==
    \E i \in 1..Len(phist) :
        /\ phist[i].op = "Update" /\ phist[i].target = <<"depthRenderTarget", 0>>
        /\ PPost(i).view[<<"depthRenderTarget", 0>>] # NullView
        /\ PPost(i).packedState # phist[i].pre.packedState
\* ---------------------------------------------------------------- C31
\* The D3D and the OGL encoding of each stencil operation, blend operation and
\* blend factor.
StencilOpEncodings ==
    {<<"D3DZero", "OglZero">>, <<"D3DKeep", "OglKeep">>, <<"D3DReplace", "OglReplace">>,
     <<"D3DIncrSat", "OglIncrSat">>, <<"D3DDecrSat", "OglDecrSat">>,
     <<"D3DInvert", "OglInvert">>, <<"D3DIncr", "OglIncr">>, <<"D3DDecr", "OglDecr">>}

BlendOpEncodings ==
    {<<"D3DAdd", "OglFuncAdd">>, <<"D3DSubtract", "OglFuncSubtract">>,
     <<"D3DRevSubtract", "OglFuncReverseSubtract">>, <<"D3DMin", "OglMin">>,
     <<"D3DMax", "OglMax">>}

BlendCoeffEncodings ==
    {<<"D3DZero", "OglZero">>, <<"D3DOne", "OglOne">>, <<"D3DSrcColor", "OglSrcColor">>,
     <<"D3DInvSrcColor", "OglOneMinusSrcColor">>, <<"D3DSrcAlpha", "OglSrcAlpha">>,
     <<"D3DInvSrcAlpha", "OglOneMinusSrcAlpha">>, <<"D3DDstAlpha", "OglDstAlpha">>,
     <<"D3DInvDstAlpha", "OglOneMinusDstAlpha">>, <<"D3DDstColor", "OglDstColor">>,
     <<"D3DInvDstColor", "OglOneMinusDstColor">>,
     <<"D3DSrcAlphaSaturate", "OglSrcAlphaSaturate">>,
     <<"D3DBlendCoeff", "OglConstantColor">>,
     <<"D3DInvBlendCoeff", "OglOneMinusConstantColor">>,
     <<"OglConstantAlpha", "OglConstantAlpha">>,
     <<"OglOneMinusConstantAlpha", "OglOneMinusConstantAlpha">>,
     <<"D3DSrc1Color", "OglSrc1Color">>, <<"D3DInvSrc1Color", "OglInvSrc1Color">>,
     <<"D3DSrc1Alpha", "OglSrc1Alpha">>, <<"D3DInvSrc1Alpha", "OglInvSrc1Alpha">>}

Listed(encodings) == {pair[1] : pair \in encodings} \cup {pair[2] : pair \in encodings}

SameEncoded(encodings, a, b) ==
    \E pair \in encodings : {a, b} \subseteq {pair[1], pair[2]}

\* The value, the listing and the packed result of the conversions event i ran.
ConversionsOf(i) ==
    IF phist[i].op = "SetStencilOps"
    THEN {<<phist[i].argument[1], StencilOpEncodings,
            PPost(i).packedState.stencilFront.zPass>>}
    ELSE IF phist[i].op = "SetAttachmentBlendState"
         THEN {<<phist[i].argument[1], BlendOpEncodings,
                 PPost(i).packedState.attachmentBlendStates[0].colorBlendOp>>,
               <<phist[i].argument[2], BlendCoeffEncodings,
                 PPost(i).packedState.attachmentBlendStates[0].srcColorBlendFactor>>}
         ELSE {}

\* C31: ConvertStencilOp, ConvertBlendOp and ConvertBlendFactor give the D3D and the
\* OGL encoding of one operation or factor the same canonical value, and raise the
\* error for every value they do not list, storing no substitute.
C31_EncodingConversions ==
    /\ (\A i \in 1..Len(phist) :
           ConversionsOf(i) # {} =>
               IF \A c \in ConversionsOf(i) : c[1] \in Listed(c[2])
               THEN phist[i].thrown = ""
               ELSE /\ phist[i].thrown # ""
                    /\ PPost(i).packedState = phist[i].pre.packedState)
    /\ (\A i, j \in 1..Len(phist) :
           \A c \in ConversionsOf(i) : \A d \in ConversionsOf(j) :
              (/\ phist[i].thrown = "" /\ phist[j].thrown = ""
               /\ c[2] = d[2]
               /\ SameEncoded(c[2], c[1], d[1]))
              => c[3] = d[3])

\* The D3D and the OGL encoding of the inverted source colour factor were converted.
C31_Witness ==
    /\ Len(phist) = 2
    /\ phist[1].op = "SetAttachmentBlendState" /\ phist[2].op = "SetAttachmentBlendState"
    /\ phist[1].argument[2] = "D3DInvSrcColor"
    /\ phist[2].argument[2] = "OglOneMinusSrcColor"
    /\ phist[1].thrown = "" /\ phist[2].thrown = ""
    /\ packedState.attachmentBlendStates[0].srcColorBlendFactor = "eOneMinusSrcColor"

\* An unlisted stencil operation was rejected after a listed one had been packed.
C31_UnlistedCase ==
    /\ Len(phist) = 2
    /\ phist[1].op = "SetStencilOps" /\ phist[1].argument[1] = "OglReplace"
    /\ phist[2].op = "SetStencilOps" /\ phist[2].argument[1] = "Unlisted"
    /\ phist[2].thrown # ""
    /\ packedState.stencilFront.zPass = "eReplace"

\* ---------------------------------------------------------------- C32, C38
\* A component layout and numerical type the switch has a case for.
MappedVertexFormat(componentBitWidths, numericalType) ==
    /\ componentBitWidths \in DOMAIN VertexFormatCases
    /\ numericalType \in VertexFormatCases[componentBitWidths].types

\* C32: ConvertVertexInputAttributeFormat and ConvertPrimitiveTopology never raise:
\* an input without a case returns R8G8B8A8 Unorm, respectively the triangle list,
\* and an input with a case returns the value of its case.
C32_FallbackConversions ==
    \A i \in 1..Len(phist) :
       /\ phist[i].op = "ConvertVertexInputAttributeFormat" =>
             /\ phist[i].thrown = ""
             /\ Len(phist[i].returned) = 1
             /\ IF MappedVertexFormat(phist[i].argument[1], phist[i].argument[2])
                THEN /\ phist[i].returned[1].vkFormat =
                            VertexFormatCases[phist[i].argument[1]].vkFormat
                     /\ phist[i].returned[1].suffix =
                            VertexFormatCases[phist[i].argument[1]].suffix
                     /\ phist[i].warn = <<>>
                ELSE phist[i].returned[1] =
                         [vkFormat |-> "eR8G8B8A8", vkType |-> "Unorm", suffix |-> ""]
       /\ phist[i].op = "ConvertPrimitiveTopology" =>
             /\ phist[i].thrown = ""
             /\ Len(phist[i].returned) = 1
             /\ IF phist[i].argument[1] \in DOMAIN PrimitiveTopologyCases
                THEN /\ phist[i].returned[1] = PrimitiveTopologyCases[phist[i].argument[1]]
                     /\ phist[i].warn = <<>>
                ELSE phist[i].returned[1][1] = "eTriangleList"

\* A topology without a case was converted to the triangle list.
C32_Witness ==
    /\ Len(phist) = 1
    /\ phist[1].op = "ConvertPrimitiveTopology"
    /\ phist[1].argument[1] = "Unlisted"
    /\ phist[1].returned = <<<<"eTriangleList", "Triangles">>>>
    /\ phist[1].thrown = ""

\* A 32-bit layout with a normalised type, a pair without a case, was substituted.
C32_PairCase ==
    /\ Len(phist) = 1
    /\ phist[1].op = "ConvertVertexInputAttributeFormat"
    /\ phist[1].argument = <<"R32", "Unorm">>
    /\ phist[1].returned[1].vkFormat = "eR8G8B8A8"
    /\ phist[1].warn # <<>>

\* ---------------------------------------------------------------------- C33
\* C33: a constant-buffer batch is never active while a deferred draw is pending:
\* a write that starts a batch has first emitted the pending draw, and a write that
\* creates the draw record has first emitted the active batch.
C33_BatchDrawExclusive ==
    /\ ~(batchLoadConstantBuffer.active /\ deferredDraw.pending)
    /\ (\A i \in 1..Len(hist) :
           /\ ~(hist[i].pre.batchLoadConstantBuffer.active /\ hist[i].pre.deferredDraw.pending)
           /\ (/\ ~hist[i].pre.batchLoadConstantBuffer.active
               /\ Post(i).batchLoadConstantBuffer.active
               /\ hist[i].pre.deferredDraw.pending)
              => /\ Len(CallsNamed(hist[i].calls, "Draw")) = 1
                 /\ ~Post(i).deferredDraw.pending
           /\ (/\ ~hist[i].pre.deferredDraw.pending
               /\ Post(i).deferredDraw.pending
               /\ hist[i].pre.batchLoadConstantBuffer.active)
              => /\ Len(CallsNamed(hist[i].calls, "LoadConstantBuffer")) = 1
                 /\ ~Post(i).batchLoadConstantBuffer.active)

\* A batch was started by a write that found a draw pending.
C33_Witness ==
    \E i \in 1..Len(hist) :
       /\ hist[i].pre.deferredDraw.pending
       /\ ~hist[i].pre.batchLoadConstantBuffer.active
       /\ Post(i).batchLoadConstantBuffer.active
       /\ ~Post(i).deferredDraw.pending
       /\ Len(CallsNamed(hist[i].calls, "Draw")) = 1

\* A draw record was created by a write that found a batch active.
C33_DrawCase ==
    \E i \in 1..Len(hist) :
       /\ hist[i].pre.batchLoadConstantBuffer.active
       /\ ~hist[i].pre.deferredDraw.pending
       /\ Post(i).deferredDraw.pending
       /\ ~Post(i).batchLoadConstantBuffer.active
       /\ Len(CallsNamed(hist[i].calls, "LoadConstantBuffer")) = 1

\* ---------------------------------------------------------------------- C34
\* The register groups some translator's DirtyBind names.
LeafBound == UNION {DirtyBind(t) : t \in TranslatorSet}

\* C34: every register bound to the dependency set of some translator is bound to the
\* handle of the pipeline state too, so a changed write to it marks the pipeline state.
C34_AsStated ==
    \A i \in 1..Len(phist) :
       (/\ phist[i].op = "Write"
        /\ phist[i].pre.engine[phist[i].target] # phist[i].argument[1]
        /\ <<phist[i].target[1], phist[i].target[2]>> \in LeafBound)
       => <<phist[i].target[1], phist[i].target[2]>> \in PipelineStateDirtyBind

\* ---------------------------------------------------------------------- C35
\* C35: a render-target flush that raises the unsupported-format error leaves the
\* packed pipeline state and the view of the translator as they were, so the packed
\* format of a target is always the format its held view was created for.
C35_AsStated ==
    /\ (\A i \in 1..Len(phist) :
           (/\ phist[i].op = "Update"
            /\ phist[i].target \in RenderTargetTranslators
            /\ phist[i].thrown # "")
           => /\ PPost(i).packedState = phist[i].pre.packedState
              /\ PPost(i).view = phist[i].pre.view)
    /\ (\A slot \in ColorTargets :
           Len(view[ColorRenderTargetName(slot)]) = 1 =>
              /\ ColorRenderTargetFormatSupported(packedState.colorRenderTargetFormats[slot])
              /\ view[ColorRenderTargetName(slot)][1].format =
                     ConvertColorRenderTargetFormat(
                         packedState.colorRenderTargetFormats[slot]))

\* ---------------------------------------------------------------------- C36
\* C36: a write that raises a resource-exhaustion failure (macro memory full, macro
\* position table full) leaves the dispatcher as it was before the write: register
\* file, shadow copy, pending draw, batch and macro memory are unchanged, no dirty
\* flag is set and no downstream call is emitted.
C36_AsStated ==
    \A i \in 1..Len(hist) :
        hist[i].thrown \in {"Macro memory is full!", "Maximum amount of macros reached!"}
        => /\ Post(i) = hist[i].pre
           /\ hist[i].dirty = {}
           /\ hist[i].calls = <<>>

\* ---------------------------------------------------------------------- C37
\* The view the flush of render target t created in event i, if it created one.
CreatedView(i, t) ==
    IF Ran(i, t) /\ phist[i].thrown = "" THEN PPost(i).view[t] ELSE <<>>

\* C37: the layer stride of a colour or depth render target is the array pitch when
\* the base array layer is at least 1 or the layer count exceeds 1, and 0 only when
\* the base array layer is 0 and the layer count is 1.
C37_AsStated ==
    \A i \in 1..Len(phist) :
       /\ \A slot \in ColorTargets :
             LET v == CreatedView(i, ColorRenderTargetName(slot))
                 pitch == ArrayPitch(phist[i].pre.engine[<<"colorTarget", slot,
                                                          "arrayPitchLsr2">>])
             IN Len(v) = 1 =>
                   v[1].layerStride =
                      (IF v[1].baseArrayLayer >= 1 \/ v[1].layerCount > 1
                       THEN pitch ELSE 0)
       /\ LET v == CreatedView(i, <<"depthRenderTarget", 0>>)
              pitch == phist[i].pre.engine[<<"zt", 0, "ztArrayPitch">>]
          IN Len(v) = 1 =>
                v[1].layerStride =
                   (IF v[1].baseArrayLayer >= 1 \/ v[1].layerCount > 1
                    THEN pitch ELSE 0)

\* ---------------------------------------------------------------------- C38
\* The type names of canonical formats that have numerical type `numericalType`.
CanonicalTypes(numericalType) ==
    IF numericalType = "Float" THEN {"Sfloat", "Ufloat"} ELSE {numericalType}

\* C38: every pair of component layout and numerical type with a case returns a
\* canonical format of the same numerical type.
C38_AsStated ==
    \A i \in 1..Len(phist) :
       (/\ phist[i].op = "ConvertVertexInputAttributeFormat"
        /\ MappedVertexFormat(phist[i].argument[1], phist[i].argument[2]))
       => phist[i].returned[1].vkType \in CanonicalTypes(phist[i].argument[2])

\* ---------------------------------------------------------------------- C39
\* C39: the minimum and the maximum input of the depth-bounds state are the
\* depth-bounds minimum and the depth-bounds maximum register.
C39_AsStated ==
    MakeActiveStateRegisters(registers).depthBoundsRegisters =
        <<registers["depthBoundsMin"], registers["depthBoundsMax"]>>

\* ---------------------------------------------------------------------- C40
\* The number of bytes the calls before call i of a run have drawn.
RECURSIVE BytesBefore(_, _)
BytesBefore(run, i) ==
    IF i = 1 THEN 0 ELSE BytesBefore(run, i - 1) + randomCalls[run][i - 1].size

\* The generator after n draws from its initial state.
RECURSIVE StateAfter(_)
StateAfter(n) == IF n = 0 THEN DefaultSeed ELSE Mt19937Next(StateAfter(n - 1))

\* Calls 1..i of the two runs asked for the same sizes.
SameSizes(i) == \A j \in 1..i : randomCalls[1][j].size = randomCalls[2][j].size

\* C40: GetRandomBytes fills the output buffer with exactly as many bytes as it
\* holds and returns success; the bytes come from one generator of the process that
\* starts unseeded, so two runs with the same request sizes receive the same bytes,
\* and the bytes of a call are those at the position given by the number of bytes
\* drawn by the earlier calls, whichever session made them.
C40_GetRandomBytes ==
    /\ (\A run \in Runs : \A i \in 1..Len(randomCalls[run]) :
           LET c == randomCalls[run][i]
           IN /\ Len(c.outBuf) = c.size
              /\ c.result = "Success"
              /\ c.outBuf = Generate(StateAfter(BytesBefore(run, i)), c.size).data)
    /\ (\A i \in 1..Len(randomCalls[1]) :
           (i <= Len(randomCalls[2]) /\ SameSizes(i))
           => randomCalls[1][i].outBuf = randomCalls[2][i].outBuf)

\* Two runs made the same two requests from different sessions and received the
\* same bytes.
C40_Witness ==
    /\ Len(randomCalls[1]) = 2 /\ Len(randomCalls[2]) = 2
    /\ SameSizes(2)
    /\ randomCalls[1][1].session # randomCalls[2][1].session
    /\ randomCalls[1][2].size = 2
    /\ randomCalls[1][1].size = 1
    /\ randomCalls[1][2].outBuf = randomCalls[2][2].outBuf
    /\ randomCalls[1][2].outBuf # randomCalls[1][1].outBuf \o randomCalls[1][1].outBuf

\* The same request received other bytes after an earlier call of another session
\* had drawn more.
C40_EarlierCase ==
    /\ Len(randomCalls[1]) = 2 /\ Len(randomCalls[2]) = 2
    /\ randomCalls[1][1].size = 1 /\ randomCalls[2][1].size = 2
    /\ randomCalls[1][1].session # randomCalls[1][2].session
    /\ randomCalls[1][2].size = 1 /\ randomCalls[2][2].size = 1
    /\ randomCalls[1][2].outBuf # randomCalls[2][2].outBuf
====
